---- MODULE Spec2Model ----
(***************************************************************************)
(* Fixed-width unsigned integers uint<N> of src/E.cpp (namespace intx).    *)
(*                                                                         *)
(* A uint<N> is its array words_[0..num_words-1], word 0 least             *)
(* significant; here a function from 0..num_words-1 to words, so that the  *)
(* indices are the source's.  The machine word is scaled from 64 bits to   *)
(* WordBits bits: TLC's integers are 32 bits wide and could not hold one   *)
(* 64-bit word, let alone a product of two.  Every width the source        *)
(* derives from the word size (num_bits, half_bits, the hex digit limit,   *)
(* digits10, the shift distances 64 - s) is derived here from WordBits by  *)
(* the source's own expression, and all word arithmetic wraps modulo       *)
(* 2^WordBits as uint64_t arithmetic wraps modulo 2^64.  uint<128> is the  *)
(* two-word type, uint<256> the four-word type.                            *)
(***************************************************************************)
EXTENDS Integers, Sequences, FiniteSets, TLC

VARIABLES pc, op, x, y, s, junk, str, base, out

vars == <<pc, op, x, y, s, junk, str, base, out>>

\* uint<N>::word_num_bits, scaled (64 in the source).
WordBits == 4

\* Largest num_words of the generic type that the checks draw operands for.
MaxWords == 4

RECURSIVE Pow2(_)
Pow2(n) == IF n = 0 THEN 1 ELSE 2 * Pow2(n - 1)

\* The number of values of one word: uint64_t arithmetic is modulo B.
B == Pow2(WordBits)

WordMax == B - 1

\* bool converted to an integer, as in uint64_t{k}.
Bool(k) == IF k THEN 1 ELSE 0

\* ---------------------------------------------------------------- words
\* The builtin operators of uint64_t.  A shift by the word size or more is
\* undefined in C++ and is never written here: callers keep 0 <= n < WordBits.
wadd(a, b) == (a + b) % B

wsub(a, b) == (a - b) % B

wmul(a, b) == (a * b) % B

shl(a, n) == (a * Pow2(n)) % B

shr(a, n) == a \div Pow2(n)

RECURSIVE bit_or(_, _)
bit_or(a, b) ==
  IF a = 0 THEN b
  ELSE IF b = 0 THEN a
  ELSE Bool(a % 2 = 1 \/ b % 2 = 1) + 2 * bit_or(a \div 2, b \div 2)

RECURSIVE bit_and(_, _)
bit_and(a, b) ==
  IF a = 0 \/ b = 0 THEN 0
  ELSE Bool(a % 2 = 1 /\ b % 2 = 1) + 2 * bit_and(a \div 2, b \div 2)

\* ------------------------------------------------------------- uint<N>
num_words(v) == Cardinality(DOMAIN v)

num_bits(v) == num_words(v) * WordBits

\* uint<N>{}: every word zero-initialised (words_[num_words]{}).
Zero(n) == [i \in 0 .. n - 1 |-> 0]

\* uint<N>(w) for one word w: words_{w, 0, ...}.
FromWord(n, w) == [i \in 0 .. n - 1 |-> IF i = 0 THEN w ELSE 0]

\* The number a word array denotes (not code: the reference the claims use).
RECURSIVE ValueFrom(_, _)
ValueFrom(v, i) ==
  IF i >= num_words(v) THEN 0 ELSE v[i] + B * ValueFrom(v, i + 1)

Value(v) == ValueFrom(v, 0)

\* ------------------------------------------------- add / sub with carry
add_with_carry_word(a, b, carry) ==
  LET sum == (a + b) % B
      carry1 == sum < a
      t == (sum + Bool(carry)) % B
      carry2 == t < sum
  IN  [value |-> t, carry |-> carry1 \/ carry2]

RECURSIVE add_with_carry_loop(_, _, _, _, _)
add_with_carry_loop(a, b, sum, k, i) ==
  IF i >= num_words(a) THEN [value |-> sum, carry |-> k]
  ELSE LET si == (a[i] + b[i]) % B
           k1 == si < a[i]
           sk == (si + Bool(k)) % B
       IN  add_with_carry_loop(a, b, [sum EXCEPT ![i] = sk],
                               (sk < Bool(k)) \/ k1, i + 1)

\* Mutant of add_with_carry: the carry k is not taken into the next word.
add_with_carry_unpropagated(a, b, carry) ==
  [value |-> [i \in 0 .. num_words(a) - 1 |-> wadd(a[i], b[i])],
   carry |-> FALSE]

add_with_carry(a, b, carry) ==
  add_with_carry_loop(a, b, Zero(num_words(a)), carry, 0)

sub_with_carry_word(a, b, carry) ==
  LET d == (a - b) % B
      carry1 == a < b
      e == (d - Bool(carry)) % B
      carry2 == d < Bool(carry)
  IN  [value |-> e, carry |-> carry1 \/ carry2]

RECURSIVE sub_with_carry_loop(_, _, _, _, _)
sub_with_carry_loop(a, b, z, k, i) ==
  IF i >= num_words(a) THEN [value |-> z, carry |-> k]
  ELSE LET zi == (a[i] - b[i]) % B
           k1 == a[i] < b[i]
           k2 == zi < Bool(k)
       IN  sub_with_carry_loop(a, b, [z EXCEPT ![i] = (zi - Bool(k)) % B],
                               k1 \/ k2, i + 1)

sub_with_carry(a, b, carry) ==
  sub_with_carry_loop(a, b, Zero(num_words(a)), carry, 0)

operator_plus(a, b) == add_with_carry(a, b, FALSE).value

operator_minus(a, b) == sub_with_carry(a, b, FALSE).value

\* ----------------------------------------------------------- comparisons
\* operator==(uint128, uint128)
operator_eq_128(a, b) == (a[0] = b[0]) /\ (a[1] = b[1])

RECURSIVE operator_eq_loop(_, _, _, _)
operator_eq_loop(a, b, result, i) ==
  IF i >= num_words(a) THEN result
  ELSE operator_eq_loop(a, b, result /\ (a[i] = b[i]), i + 1)

\* template operator==(uint<N>, uint<N>)
operator_eq_N(a, b) == operator_eq_loop(a, b, TRUE, 0)

\* Overload resolution: the non-template uint128 overload wins for two words.
operator_eq(a, b) ==
  IF num_words(a) = 2 THEN operator_eq_128(a, b) ELSE operator_eq_N(a, b)

\* operator<(uint128, uint128) with INTX_HAS_BUILTIN_INT128: the compiler's
\* comparison of two unsigned __int128.
operator_lt_128_builtin(a, b) == a[1] * B + a[0] < b[1] * B + b[0]

\* operator<(uint128, uint128) without it.
operator_lt_128_portable(a, b) ==
  (a[1] < b[1]) \/ ((a[1] = b[1]) /\ (a[0] < b[0]))

operator_lt_128(a, b) == operator_lt_128_portable(a, b)

\* uint128{lo, hi}
uint128(lo, hi) == [i \in 0 .. 1 |-> IF i = 0 THEN lo ELSE hi]

\* Mutant of operator_lt_256: the low halves decide even when the high
\* halves differ.
operator_lt_256_low_decides(a, b) ==
  operator_lt_128(uint128(a[2], a[3]), uint128(b[2], b[3]))
    \/ operator_lt_128(uint128(a[0], a[1]), uint128(b[0], b[1]))

\* operator<(uint256, uint256)
operator_lt_256(a, b) ==
  LET xhi == uint128(a[2], a[3])
      xlo == uint128(a[0], a[1])
      yhi == uint128(b[2], b[3])
      ylo == uint128(b[0], b[1])
  IN  operator_lt_128(xhi, yhi)
        \/ (operator_eq_128(xhi, yhi) /\ operator_lt_128(xlo, ylo))

\* template operator<(uint<N>, uint<N>): the borrow of x - y.
operator_lt_N(a, b) == sub_with_carry(a, b, FALSE).carry

\* Overload resolution: the non-template uint128 and uint256 overloads win.
operator_lt(a, b) ==
  IF num_words(a) = 2 THEN operator_lt_128(a, b)
  ELSE IF num_words(a) = 4 THEN operator_lt_256(a, b)
  ELSE operator_lt_N(a, b)

operator_gt(a, b) == operator_lt(b, a)

operator_ge(a, b) == ~operator_lt(a, b)

operator_le(a, b) == ~operator_lt(b, a)

\* -------------------------------------------------------- multiplication
\* umul(uint64_t, uint64_t) with INTX_HAS_BUILTIN_INT128: the compiler's
\* product of two unsigned __int128.
umul_word_builtin(a, b) == uint128((a * b) % B, (a * b) \div B)

\* The half-word mask 0xffffffff and the half-word shift 32, scaled.
HalfBits == WordBits \div 2

HalfMask == Pow2(HalfBits) - 1

\* The portable path with the high half of u1 left out of hi.
umul_word_portable_u1_dropped(a, b) ==
  LET xl == bit_and(a, HalfMask)
      xh == shr(a, HalfBits)
      yl == bit_and(b, HalfMask)
      yh == shr(b, HalfBits)
      t0 == (xl * yl) % B
      t1 == (xh * yl) % B
      t2 == (xl * yh) % B
      t3 == (xh * yh) % B
      u1 == (t1 + shr(t0, HalfBits)) % B
      u2 == (t2 + bit_and(u1, HalfMask)) % B
      lo == bit_or(shl(u2, HalfBits), bit_and(t0, HalfMask))
      hi == (t3 + shr(u2, HalfBits)) % B
  IN  uint128(lo, hi)

\* umul(uint64_t, uint64_t), the portable path.
umul_word_portable(a, b) ==
  LET xl == bit_and(a, HalfMask)
      xh == shr(a, HalfBits)
      yl == bit_and(b, HalfMask)
      yh == shr(b, HalfBits)
      t0 == (xl * yl) % B
      t1 == (xh * yl) % B
      t2 == (xl * yh) % B
      t3 == (xh * yh) % B
      u1 == (t1 + shr(t0, HalfBits)) % B
      u2 == (t2 + bit_and(u1, HalfMask)) % B
      lo == bit_or(shl(u2, HalfBits), bit_and(t0, HalfMask))
      hi == (t3 + shr(u2, HalfBits) + shr(u1, HalfBits)) % B
  IN  uint128(lo, hi)

\* The portable path, evaluated once per pair of words.
umul_word_table ==
  [a \in 0 .. WordMax |-> [b \in 0 .. WordMax |-> umul_word_portable(a, b)]]

umul_word(a, b) == umul_word_table[a][b]

\* The inner loop of umul<N> and of operator*: i runs from its current value
\* up to (not including) iend; returns the product words and the carry k.
RECURSIVE mul_inner(_, _, _, _, _, _, _)
mul_inner(a, b, p, k, j, i, iend) ==
  IF i >= iend THEN [p |-> p, k |-> k]
  ELSE LET store(t) ==
             mul_inner(a, b, [p EXCEPT ![i + j] = t[0]], t[1], j, i + 1, iend)
       IN  store(operator_plus(
                   operator_plus(umul_word(a[i], b[j]), FromWord(2, p[i + j])),
                   FromWord(2, k)))

\* Whether some step t = x[i] * y[j] + p[i + j] + k of umul<N> carries out of
\* its two words: the carry that operator+ on uint128 drops (not code: the
\* loops of umul<N> run again, recording the carries instead of the words).
RECURSIVE umul_carry_lost(_, _, _, _, _, _)
umul_carry_lost(a, b, p, k, j, i) ==
  IF j >= num_words(a) THEN FALSE
  ELSE IF i >= num_words(a)
  THEN umul_carry_lost(a, b, [p EXCEPT ![j + num_words(a)] = k], 0, j + 1, 0)
  ELSE LET t1 == add_with_carry(umul_word(a[i], b[j]), FromWord(2, p[i + j]),
                                FALSE)
           t2 == add_with_carry(t1.value, FromWord(2, k), FALSE)
       IN  t1.carry \/ t2.carry
             \/ umul_carry_lost(a, b, [p EXCEPT ![i + j] = t2.value[0]],
                                t2.value[1], j, i + 1)

RECURSIVE umul_loop(_, _, _, _)
umul_loop(a, b, p, j) ==
  IF j >= num_words(a) THEN p
  ELSE LET store(r) ==
             umul_loop(a, b, [r.p EXCEPT ![j + num_words(a)] = r.k], j + 1)
       IN  store(mul_inner(a, b, p, 0, j, 0, num_words(a)))

\* Mutant of umul: the carry k of a row is not stored into p[j + num_words].
RECURSIVE umul_row_carry_dropped_loop(_, _, _, _)
umul_row_carry_dropped_loop(a, b, p, j) ==
  IF j >= num_words(a) THEN p
  ELSE umul_row_carry_dropped_loop(
         a, b, mul_inner(a, b, p, 0, j, 0, num_words(a)).p, j + 1)

umul_row_carry_dropped(a, b) ==
  umul_row_carry_dropped_loop(a, b, Zero(2 * num_words(a)), 0)

\* template umul(uint<N>, uint<N>) -> uint<2N>
umul(a, b) == umul_loop(a, b, Zero(2 * num_words(a)), 0)

RECURSIVE operator_mul_loop(_, _, _, _)
operator_mul_loop(a, b, p, j) ==
  IF j >= num_words(a) THEN p
  ELSE LET n == num_words(a)
           top(r) == wadd(r.p[n - 1], wadd(wmul(a[n - j - 1], b[j]), r.k))
           store(r) ==
             operator_mul_loop(a, b, [r.p EXCEPT ![n - 1] = top(r)], j + 1)
       IN  store(mul_inner(a, b, p, 0, j, 0, n - j - 1))

\* Mutant of operator_mul_N: the carry k of a row is not added into the top
\* word.
RECURSIVE operator_mul_N_k_dropped_loop(_, _, _, _)
operator_mul_N_k_dropped_loop(a, b, p, j) ==
  IF j >= num_words(a) THEN p
  ELSE LET n == num_words(a)
           top(r) == wadd(r.p[n - 1], wmul(a[n - j - 1], b[j]))
           store(r) ==
             operator_mul_N_k_dropped_loop(a, b, [r.p EXCEPT ![n - 1] = top(r)],
                                           j + 1)
       IN  store(mul_inner(a, b, p, 0, j, 0, n - j - 1))

operator_mul_N_k_dropped(a, b) ==
  operator_mul_N_k_dropped_loop(a, b, Zero(num_words(a)), 0)

\* template operator*(uint<N>, uint<N>)
operator_mul_N(a, b) == operator_mul_loop(a, b, Zero(num_words(a)), 0)

\* operator*(uint128, uint128)
operator_mul_128(a, b) ==
  LET p == umul_word(a[0], b[0])
  IN  uint128(p[0], wadd(p[1], wadd(wmul(a[0], b[1]), wmul(a[1], b[0]))))

\* Overload resolution: the non-template uint128 overload wins for two words.
operator_mul(a, b) ==
  IF num_words(a) = 2 THEN operator_mul_128(a, b) ELSE operator_mul_N(a, b)

\* ---------------------------------------------------------------- shifts
\* A uint64_t shift amount is a natural number here: the code only compares
\* it, subtracts from it below a bound it has checked, and divides it by the
\* word size, so its own width plays no part.

\* operator|(uint<N>, uint<N>), word by word (the uint128 form is the same).
operator_or(a, b) == [i \in DOMAIN a |-> bit_or(a[i], b[i])]

\* operator<<(uint128, uint64_t)
operator_shl_128(a, shift) ==
  IF shift < WordBits
  THEN uint128(shl(a[0], shift),
               bit_or(shl(a[1], shift),
                      shr(shr(a[0], 1), WordBits - 1 - shift)))
  ELSE IF shift < 2 * WordBits
  THEN uint128(0, shl(a[0], shift - WordBits))
  ELSE Zero(2)

\* operator>>(uint128, uint64_t)
operator_shr_128(a, shift) ==
  IF shift < WordBits
  THEN uint128(bit_or(shr(a[0], shift),
                      shl(shl(a[1], 1), WordBits - 1 - shift)),
               shr(a[1], shift))
  ELSE IF shift < 2 * WordBits
  THEN FromWord(2, shr(a[1], shift - WordBits))
  ELSE Zero(2)

\* uint256{w0, w1, w2, w3}
uint256(w0, w1, w2, w3) ==
  [i \in 0 .. 3 |-> IF i = 0 THEN w0 ELSE IF i = 1 THEN w1
                     ELSE IF i = 2 THEN w2 ELSE w3]

\* Mutant of operator_shl_256: the part moved from the low half to the high
\* half is left out.
operator_shl_256_overflow_dropped(a, shift) ==
  LET bits == 4 * WordBits
      half_bits == bits \div 2
      xlo == uint128(a[0], a[1])
      xhi == uint128(a[2], a[3])
  IN  IF shift >= bits THEN Zero(4)
      ELSE IF shift < half_bits
      THEN LET lo == operator_shl_128(xlo, shift)
               hi == operator_shl_128(xhi, shift)
           IN  uint256(lo[0], lo[1], hi[0], hi[1])
      ELSE LET hi == operator_shl_128(xlo, shift - half_bits)
           IN  uint256(0, 0, hi[0], hi[1])

\* operator<<(uint256, uint64_t)
operator_shl_256(a, shift) ==
  LET bits == 4 * WordBits
      half_bits == bits \div 2
      xlo == uint128(a[0], a[1])
      xhi == uint128(a[2], a[3])
  IN  IF shift >= bits THEN Zero(4)
      ELSE IF shift < half_bits
      THEN LET lo == operator_shl_128(xlo, shift)
               rshift == half_bits - shift
               lo_overflow ==
                 operator_shr_128(operator_shr_128(xlo, rshift - 1), 1)
               hi == operator_or(operator_shl_128(xhi, shift), lo_overflow)
           IN  uint256(lo[0], lo[1], hi[0], hi[1])
      ELSE LET hi == operator_shl_128(xlo, shift - half_bits)
           IN  uint256(0, 0, hi[0], hi[1])

\* operator>>(uint256, uint64_t)
operator_shr_256(a, shift) ==
  LET bits == 4 * WordBits
      half_bits == bits \div 2
      xlo == uint128(a[0], a[1])
      xhi == uint128(a[2], a[3])
  IN  IF shift >= bits THEN Zero(4)
      ELSE IF shift < half_bits
      THEN LET hi == operator_shr_128(xhi, shift)
               lshift == half_bits - shift
               hi_overflow ==
                 operator_shl_128(operator_shl_128(xhi, lshift - 1), 1)
               lo == operator_or(operator_shr_128(xlo, shift), hi_overflow)
           IN  uint256(lo[0], lo[1], hi[0], hi[1])
      ELSE LET lo == operator_shr_128(xhi, shift - half_bits)
           IN  uint256(lo[0], lo[1], 0, 0)

\* The loop of the template operator<<: i counts the words written so far.
RECURSIVE operator_shl_N_loop(_, _, _, _, _, _)
operator_shl_N_loop(a, sh, skip, r, carry, i) ==
  IF i >= num_words(a) - skip THEN r
  ELSE operator_shl_N_loop(
         a, sh, skip,
         [r EXCEPT ![i + skip] = bit_or(shl(a[i], sh), carry)],
         shr(shr(a[i], WordBits - sh - 1), 1),
         i + 1)

\* Mutant of operator_shl_N: the bits that leave a word are not carried
\* into the next one.
operator_shl_N_carry_dropped(a, shift) ==
  IF shift >= num_bits(a) THEN Zero(num_words(a))
  ELSE [i \in DOMAIN a |->
          IF i < shift \div WordBits THEN 0
          ELSE shl(a[i - (shift \div WordBits)], shift % WordBits)]

\* template operator<<(uint<N>, uint64_t)
operator_shl_N(a, shift) ==
  IF shift >= num_bits(a) THEN Zero(num_words(a))
  ELSE operator_shl_N_loop(a, shift % WordBits, shift \div WordBits,
                           Zero(num_words(a)), 0, 0)

\* The loop of the template operator>>.
RECURSIVE operator_shr_N_loop(_, _, _, _, _, _)
operator_shr_N_loop(a, sh, skip, r, carry, i) ==
  IF i >= num_words(a) - skip THEN r
  ELSE LET n == num_words(a)
       IN  operator_shr_N_loop(
             a, sh, skip,
             [r EXCEPT ![n - 1 - i - skip] = bit_or(shr(a[n - 1 - i], sh), carry)],
             shl(shl(a[n - 1 - i], WordBits - sh - 1), 1),
             i + 1)

\* template operator>>(uint<N>, uint64_t)
operator_shr_N(a, shift) ==
  IF shift >= num_bits(a) THEN Zero(num_words(a))
  ELSE operator_shr_N_loop(a, shift % WordBits, shift \div WordBits,
                           Zero(num_words(a)), 0, 0)

\* The distances by which the loops of the template shifts shift a word.
ShiftDistances_N(shift) ==
  {shift % WordBits, WordBits - (shift % WordBits) - 1, 1}

\* Overload resolution of x << shift for a uint64_t shift: the non-template
\* uint128 and uint256 overloads win.
operator_shl(a, shift) ==
  IF num_words(a) = 2 THEN operator_shl_128(a, shift)
  ELSE IF num_words(a) = 4 THEN operator_shl_256(a, shift)
  ELSE operator_shl_N(a, shift)

operator_shr(a, shift) ==
  IF num_words(a) = 2 THEN operator_shr_128(a, shift)
  ELSE IF num_words(a) = 4 THEN operator_shr_256(a, shift)
  ELSE operator_shr_N(a, shift)

\* high_words_fold of the shifts by a uint<N>: the OR of words 1 and above.
RECURSIVE high_words_fold(_, _, _)
high_words_fold(shift, fold, i) ==
  IF i >= num_words(shift) THEN fold
  ELSE high_words_fold(shift, bit_or(fold, shift[i]), i + 1)

\* operator<<(uint128, uint128)
operator_shl_128_wide(a, shift) ==
  IF shift[1] # 0 THEN Zero(2) ELSE operator_shl_128(a, shift[0])

\* operator>>(uint128, uint128)
operator_shr_128_wide(a, shift) ==
  IF shift[1] # 0 THEN Zero(2) ELSE operator_shr_128(a, shift[0])

\* Mutant of operator_shl_N_wide: only the top word of the shift is looked at.
operator_shl_N_wide_top_only(a, shift) ==
  IF shift[num_words(shift) - 1] # 0 THEN Zero(num_words(a))
  ELSE operator_shl(a, shift[0])

\* template operator<<(uint<N>, uint<N>)
operator_shl_N_wide(a, shift) ==
  IF high_words_fold(shift, 0, 1) # 0 THEN Zero(num_words(a))
  ELSE operator_shl(a, shift[0])

\* template operator>>(uint<N>, uint<N>)
operator_shr_N_wide(a, shift) ==
  IF high_words_fold(shift, 0, 1) # 0 THEN Zero(num_words(a))
  ELSE operator_shr(a, shift[0])

\* Overload resolution of x << shift for a shift of x's own type.
operator_shl_wide(a, shift) ==
  IF num_words(a) = 2 THEN operator_shl_128_wide(a, shift)
  ELSE operator_shl_N_wide(a, shift)

operator_shr_wide(a, shift) ==
  IF num_words(a) = 2 THEN operator_shr_128_wide(a, shift)
  ELSE operator_shr_N_wide(a, shift)

\* -------------------------------------------------------------- division
\* The number of bits of a word below and including its highest set bit.
RECURSIVE BitLength(_)
BitLength(w) == IF w = 0 THEN 0 ELSE 1 + BitLength(w \div 2)

\* clz(uint64_t): x != 0 ? __builtin_clzll(x) : 64
clz(w) == IF w # 0 THEN WordBits - BitLength(w) ELSE WordBits

\* The outcome of a failed INTX_REQUIRE in a build without NDEBUG: assert()
\* ends the program and nothing is returned.
Abort(what) == [abort |-> what]

Aborted(r) == "abort" \in DOMAIN r

\* reciprocal_2by1(d) for a normalized d, as the number it returns:
\* floor((2^(2w) - 1) / d) - 2^w.  The source reaches it from a 256-entry
\* table indexed by the top 9 bits of d, refined in four steps whose shift
\* distances and masks are written for 64-bit words and do not scale to
\* WordBits; the division routines below are the source's, run on this
\* value.
reciprocal_2by1(d) == (B * B - 1) \div d - B

\* reciprocal_3by2(uint128 d).  Each step of the source is an operator of
\* the values the step before left in v and p.
reciprocal_3by2(d) ==
  LET \* if (p < t[1]) { --v; if (p >= d[1]) if (p > d[1] || t[0] >= d[0]) --v; }
      last(v, p, t) ==
        IF p < t[1]
        THEN IF p >= d[1] /\ (p > d[1] \/ t[0] >= d[0])
             THEN wsub(v, 2) ELSE wsub(v, 1)
        ELSE v
      \* t = umul(v, d[0]); p += t[1];
      high(v, p, t) == last(v, wadd(p, t[1]), t)
      low(v, p) == high(v, p, umul_word(v, d[0]))
      \* if (p < d[0]) { --v; if (p >= d[1]) { --v; p -= d[1]; } p -= d[1]; }
      first(v, p) ==
        IF p < d[0]
        THEN IF p >= d[1] THEN low(wsub(v, 2), wsub(wsub(p, d[1]), d[1]))
             ELSE low(wsub(v, 1), wsub(p, d[1]))
        ELSE low(v, p)
      \* p = d[1] * v; p += d[0];
      start(v) == first(v, wadd(wmul(d[1], v), d[0]))
  IN  start(reciprocal_2by1(d[1]))

\* fast_add(uint128, uint128): the sum modulo 2^128 on either path.
fast_add(a, b) == operator_plus(a, b)

\* udivrem_2by1 without the correction of a quotient that is one too high.
udivrem_2by1_uncorrected(u, d, v) ==
  LET second(q1, r) ==
        IF r >= d THEN [quot |-> wadd(q1, 1), rem |-> wsub(r, d)]
        ELSE [quot |-> q1, rem |-> r]
      step(q0, q1) == second(q1, wsub(u[0], wmul(q1, d)))
      start(q) == step(q[0], wadd(q[1], 1))
  IN  start(fast_add(umul_word(v, u[1]), u))

\* udivrem_2by1(uint128 u, uint64_t d, uint64_t v)
udivrem_2by1(u, d, v) ==
  LET \* if (r >= d) { ++q[1]; r -= d; }
      second(q1, r) ==
        IF r >= d THEN [quot |-> wadd(q1, 1), rem |-> wsub(r, d)]
        ELSE [quot |-> q1, rem |-> r]
      \* if (r > q[0]) { --q[1]; r += d; }
      first(q0, q1, r) ==
        IF r > q0 THEN second(wsub(q1, 1), wadd(r, d)) ELSE second(q1, r)
      \* ++q[1]; r = u[0] - q[1] * d;
      step(q0, q1) == first(q0, q1, wsub(u[0], wmul(q1, d)))
      start(q) == step(q[0], wadd(q[1], 1))
  IN  \* q = umul(v, u[1]); q = fast_add(q, u);
      start(fast_add(umul_word(v, u[1]), u))

\* udivrem_3by2 without the last correction, of a remainder not below d.
udivrem_3by2_remainder_uncorrected(u2, u1, u0, d, v) ==
  LET first(q0, q1, r) ==
        IF r[1] >= q0 THEN [quot |-> q1, rem |-> operator_plus(r, d)]
        ELSE [quot |-> wadd(q1, 1), rem |-> r]
      start(q) ==
        first(q[0], q[1],
              operator_minus(
                operator_minus(uint128(u0, wsub(u1, wmul(q[1], d[1]))),
                               umul_word(d[0], q[1])),
                d))
  IN  start(fast_add(umul_word(v, u2), uint128(u1, u2)))

\* udivrem_3by2(u2, u1, u0, uint128 d, uint64_t v)
udivrem_3by2(u2, u1, u0, d, v) ==
  LET \* if (r >= d) { ++q[1]; r -= d; }
      second(q1, r) ==
        IF operator_ge(r, d)
        THEN [quot |-> wadd(q1, 1), rem |-> operator_minus(r, d)]
        ELSE [quot |-> q1, rem |-> r]
      \* ++q[1]; if (r1 >= q[0]) { --q[1]; r += d; }
      first(q0, q1, r) ==
        IF r[1] >= q0 THEN second(q1, operator_plus(r, d))
        ELSE second(wadd(q1, 1), r)
      \* r1 = u1 - q[1] * d[1]; t = umul(d[0], q[1]);
      \* r = uint128{u0, r1} - t - d;
      start(q) ==
        first(q[0], q[1],
              operator_minus(
                operator_minus(uint128(u0, wsub(u1, wmul(q[1], d[1]))),
                               umul_word(d[0], q[1])),
                d))
  IN  \* q = umul(v, u2); q = fast_add(q, {u1, u2});
      start(fast_add(umul_word(v, u2), uint128(u1, u2)))

\* udivrem(uint128 x, uint128 y), y[1] == 0: two divisions by the word y[0].
udivrem_128_by_word(a, b) ==
  LET lsh == clz(b[0])
      rsh == (WordBits - lsh) % WordBits
      rsh_mask == wsub(Bool(lsh = 0), 1)
      yn == shl(b[0], lsh)
      xn_lo == shl(a[0], lsh)
      xn_hi == bit_or(shl(a[1], lsh), bit_and(shr(a[0], rsh), rsh_mask))
      xn_ex == bit_and(shr(a[1], rsh), rsh_mask)
      done(res1, res2) ==
        [quot |-> uint128(res2.quot, res1.quot),
         rem |-> FromWord(2, shr(res2.rem, lsh))]
      low(res1, v) == done(res1, udivrem_2by1(uint128(xn_lo, res1.rem), yn, v))
      high(v) == low(udivrem_2by1(uint128(xn_hi, xn_ex), yn, v), v)
  IN  high(reciprocal_2by1(yn))

\* udivrem(uint128 x, uint128 y), y[1] != 0 and not normalized: one
\* division of three words by two.
udivrem_128_by_two(a, b, lsh) ==
  LET rsh == WordBits - lsh
      yn_lo == shl(b[0], lsh)
      yn_hi == bit_or(shl(b[1], lsh), shr(b[0], rsh))
      xn_lo == shl(a[0], lsh)
      xn_hi == bit_or(shl(a[1], lsh), shr(a[0], rsh))
      xn_ex == shr(a[1], rsh)
      done(res) ==
        [quot |-> FromWord(2, res.quot), rem |-> operator_shr_128(res.rem, lsh)]
      divide(yn, v) == done(udivrem_3by2(xn_ex, xn_hi, xn_lo, yn, v))
      start(yn) == divide(yn, reciprocal_3by2(yn))
  IN  start(uint128(yn_lo, yn_hi))

\* udivrem(uint128 x, uint128 y)
udivrem_128(a, b) ==
  IF b[1] = 0
  THEN IF b[0] = 0 THEN Abort("INTX_REQUIRE(y[0] != 0)")
       ELSE udivrem_128_by_word(a, b)
  ELSE IF b[1] > a[1] THEN [quot |-> Zero(2), rem |-> a]
  ELSE IF clz(b[1]) = 0
  THEN LET q == bit_or(Bool(b[1] < a[1]), Bool(b[0] <= a[0]))
       IN  [quot |-> FromWord(2, q),
            rem |-> operator_minus(a, IF q # 0 THEN b ELSE Zero(2))]
  ELSE udivrem_128_by_two(a, b, clz(b[1]))

\* explicit operator uint<M>() of a wider uint: the low n words.
narrow(v, n) == [i \in 0 .. n - 1 |-> v[i]]

\* The trimming loops of normalize:
\* for (m = num_words; m > 0 && u[m - 1] == 0; --m);
RECURSIVE trim(_, _)
trim(u, m) == IF m > 0 /\ u[m - 1] = 0 THEN trim(u, m - 1) ELSE m

\* A read of u[i] that the source makes without checking i: inside the
\* array it is the word; below the array it is whatever the preceding
\* memory holds (undefined behaviour), here the word jk.
read(u, i, jk) == IF i \in DOMAIN u THEN u[i] ELSE jk

\* normalize that does not keep the bits shifted out of the top numerator
\* word.
normalize_top_word_lost(u, v, jk) ==
  LET num_numerator_words == num_words(u)
      num_denominator_words == num_words(v)
      m0 == trim(u, num_numerator_words)
      n == trim(v, num_denominator_words)
      top == read(v, n - 1, jk.v)
  IN  IF top = 0 THEN Abort("INTX_REQUIRE(x != 0)")  \* clz_nonzero
      ELSE
      LET shift == clz(top)
          vn == IF shift # 0
                THEN [i \in 0 .. num_denominator_words - 1 |->
                        IF i > 0
                        THEN bit_or(shl(v[i], shift),
                                    shr(v[i - 1], WordBits - shift))
                        ELSE shl(v[0], shift)]
                ELSE v
          un == IF shift # 0
                THEN [i \in 0 .. num_numerator_words |->
                        IF i = num_numerator_words
                        THEN 0
                        ELSE IF i > 0
                        THEN bit_or(shl(u[i], shift),
                                    shr(u[i - 1], WordBits - shift))
                        ELSE shl(u[0], shift)]
                ELSE [i \in 0 .. num_numerator_words |->
                        IF i < num_numerator_words THEN u[i] ELSE 0]
          \* Skip the highest word of numerator if not significant.
          m == IF un[m0] # 0
                    \/ read(un, m0 - 1, jk.un) >= read(vn, n - 1, jk.vn)
               THEN m0 + 1 ELSE m0
      IN  [divisor |-> vn, numerator |-> un, num_divisor_words |-> n,
           num_numerator_words |-> m, shift |-> shift]

\* internal::normalize(numerator, denominator) for M == N.  jk holds the
\* words found in front of the arrays v, un and vn.
normalize(u, v, jk) ==
  LET num_numerator_words == num_words(u)
      num_denominator_words == num_words(v)
      m0 == trim(u, num_numerator_words)
      n == trim(v, num_denominator_words)
      top == read(v, n - 1, jk.v)
  IN  IF top = 0 THEN Abort("INTX_REQUIRE(x != 0)")  \* clz_nonzero
      ELSE
      LET shift == clz(top)
          vn == IF shift # 0
                THEN [i \in 0 .. num_denominator_words - 1 |->
                        IF i > 0
                        THEN bit_or(shl(v[i], shift),
                                    shr(v[i - 1], WordBits - shift))
                        ELSE shl(v[0], shift)]
                ELSE v
          un == IF shift # 0
                THEN [i \in 0 .. num_numerator_words |->
                        IF i = num_numerator_words
                        THEN shr(u[num_numerator_words - 1], WordBits - shift)
                        ELSE IF i > 0
                        THEN bit_or(shl(u[i], shift),
                                    shr(u[i - 1], WordBits - shift))
                        ELSE shl(u[0], shift)]
                ELSE [i \in 0 .. num_numerator_words |->
                        IF i < num_numerator_words THEN u[i] ELSE 0]
          \* Skip the highest word of numerator if not significant.
          m == IF un[m0] # 0
                    \/ read(un, m0 - 1, jk.un) >= read(vn, n - 1, jk.vn)
               THEN m0 + 1 ELSE m0
      IN  [divisor |-> vn, numerator |-> un, num_divisor_words |-> n,
           num_numerator_words |-> m, shift |-> shift]

\* internal::udivrem_by1(u, len, d): returns the array u, now the quotient,
\* and the remainder.  The do-while loop runs it = len - 2 down to 0.
RECURSIVE udivrem_by1_loop(_, _, _, _, _)
udivrem_by1_loop(u, d, reciprocal, rem, it) ==
  LET store(res) ==
        IF it = 0 THEN [u |-> [u EXCEPT ![it] = res.quot], rem |-> res.rem]
        ELSE udivrem_by1_loop([u EXCEPT ![it] = res.quot], d, reciprocal,
                              res.rem, it - 1)
  IN  store(udivrem_2by1(uint128(u[it], rem), d, reciprocal))

udivrem_by1(u, len, d) ==
  IF ~(len >= 2) THEN Abort("INTX_REQUIRE(len >= 2)")
  ELSE udivrem_by1_loop([u EXCEPT ![len - 1] = 0], d, reciprocal_2by1(d),
                        u[len - 1], len - 2)

\* internal::udivrem_by2(u, len, d)
RECURSIVE udivrem_by2_loop(_, _, _, _, _)
udivrem_by2_loop(u, d, reciprocal, rem, it) ==
  LET store(res) ==
        IF it = 0 THEN [u |-> [u EXCEPT ![it] = res.quot], rem |-> res.rem]
        ELSE udivrem_by2_loop([u EXCEPT ![it] = res.quot], d, reciprocal,
                              res.rem, it - 1)
  IN  store(udivrem_3by2(rem[1], rem[0], u[it], d, reciprocal))

udivrem_by2(u, len, d) ==
  IF ~(len >= 3) THEN Abort("INTX_REQUIRE(len >= 3)")
  ELSE udivrem_by2_loop([u EXCEPT ![len - 1] = 0, ![len - 2] = 0], d,
                        reciprocal_3by2(d), uint128(u[len - 2], u[len - 1]),
                        len - 3)

\* internal::add that leaves the array as it is.
add_skipped(u, j, yy, len) == [u |-> u, carry |-> FALSE]

\* internal::add(s, x, y, len) with s == x == &u[j]: adds y[0 .. len-1] into
\* u[j .. j+len-1]; returns the array and the carry.
RECURSIVE add_loop(_, _, _, _, _, _)
add_loop(u, j, yy, len, carry, i) ==
  IF i >= len THEN [u |-> u, carry |-> carry]
  ELSE LET store(r) ==
             add_loop([u EXCEPT ![j + i] = r.value], j, yy, len, r.carry, i + 1)
       IN  store(add_with_carry_word(u[j + i], yy[i], carry))

add(u, j, yy, len) == add_loop(u, j, yy, len, FALSE, 0)

\* internal::submul(r, x, y, len, multiplier) with r == x == &u[j]:
\* subtracts y[0 .. len-1] * multiplier from u[j .. j+len-1]; returns the
\* array and the borrow word.
RECURSIVE submul_loop(_, _, _, _, _, _, _)
submul_loop(u, j, yy, len, multiplier, borrow, i) ==
  IF i >= len THEN [u |-> u, borrow |-> borrow]
  ELSE LET sv == sub_with_carry_word(u[j + i], borrow, FALSE)
           p == umul_word(yy[i], multiplier)
           tv == sub_with_carry_word(sv.value, p[0], FALSE)
       IN  submul_loop([u EXCEPT ![j + i] = tv.value], j, yy, len, multiplier,
                       wadd(wadd(p[1], Bool(sv.carry)), Bool(tv.carry)), i + 1)

submul(u, j, yy, len, multiplier) == submul_loop(u, j, yy, len, multiplier, 0, 0)

\* The iteration whose overflow branch leaves u[j + dlen] as it was.
udivrem_knuth_step_top_kept(q, u, d, dlen, divisor, reciprocal, j) ==
  LET u2 == u[j + dlen]
      u1 == u[j + dlen - 1]
      u0 == u[j + dlen - 2]
      \* Division overflows: qhat = ~uint64_t{0};
      \* submul(&u[j], &u[j], d, dlen, qhat), its borrow dropped.
      overflows(sm) ==
        [q |-> [q EXCEPT ![j] = WordMax],
         u |-> sm.u]
      \* --qhat; u[j + dlen - 1] += divisor[1] + add(&u[j], &u[j], d, dlen - 1);
      added(qhat, ad) ==
        [q |-> [q EXCEPT ![j] = wsub(qhat, 1)],
         u |-> [ad.u EXCEPT
                  ![j + dlen - 1] =
                     wadd(ad.u[j + dlen - 1],
                          wadd(divisor[1], Bool(ad.carry)))]]
      stored(qhat, ua, carry) ==
        IF carry THEN added(qhat, add(ua, j, d, dlen - 1))
        ELSE [q |-> [q EXCEPT ![j] = qhat], u |-> ua]
      \* std::tie(u[j + dlen - 1], carry) = sub_with_carry(rhat[1], carry);
      high(qhat, ua, s1) ==
        stored(qhat, [ua EXCEPT ![j + dlen - 1] = s1.value], s1.carry)
      \* std::tie(u[j + dlen - 2], carry) = sub_with_carry(rhat[0], overflow);
      low(qhat, rhat, ua, s0) ==
        high(qhat, [ua EXCEPT ![j + dlen - 2] = s0.value],
             sub_with_carry_word(rhat[1], Bool(s0.carry), FALSE))
      subtracted(qhat, rhat, sm) ==
        low(qhat, rhat, sm.u, sub_with_carry_word(rhat[0], sm.borrow, FALSE))
      \* overflow = submul(&u[j], &u[j], d, dlen - 2, qhat);
      divided(res) ==
        subtracted(res.quot, res.rem, submul(u, j, d, dlen - 2, res.quot))
  IN  IF operator_eq_128(uint128(u1, u2), divisor)
      THEN overflows(submul(u, j, d, dlen, WordMax))
      ELSE divided(udivrem_3by2(u2, u1, u0, divisor, reciprocal))

\* One iteration of the loop of udivrem_knuth: the arrays q and u after it.
udivrem_knuth_step(q, u, d, dlen, divisor, reciprocal, j) ==
  LET u2 == u[j + dlen]
      u1 == u[j + dlen - 1]
      u0 == u[j + dlen - 2]
      \* Division overflows: qhat = ~uint64_t{0};
      \* u[j + dlen] = u2 - submul(&u[j], &u[j], d, dlen, qhat);
      overflows(sm) ==
        [q |-> [q EXCEPT ![j] = WordMax],
         u |-> [sm.u EXCEPT ![j + dlen] = wsub(u2, sm.borrow)]]
      \* --qhat; u[j + dlen - 1] += divisor[1] + add(&u[j], &u[j], d, dlen - 1);
      added(qhat, ad) ==
        [q |-> [q EXCEPT ![j] = wsub(qhat, 1)],
         u |-> [ad.u EXCEPT
                  ![j + dlen - 1] =
                     wadd(ad.u[j + dlen - 1],
                          wadd(divisor[1], Bool(ad.carry)))]]
      stored(qhat, ua, carry) ==
        IF carry THEN added(qhat, add(ua, j, d, dlen - 1))
        ELSE [q |-> [q EXCEPT ![j] = qhat], u |-> ua]
      \* std::tie(u[j + dlen - 1], carry) = sub_with_carry(rhat[1], carry);
      high(qhat, ua, s1) ==
        stored(qhat, [ua EXCEPT ![j + dlen - 1] = s1.value], s1.carry)
      \* std::tie(u[j + dlen - 2], carry) = sub_with_carry(rhat[0], overflow);
      low(qhat, rhat, ua, s0) ==
        high(qhat, [ua EXCEPT ![j + dlen - 2] = s0.value],
             sub_with_carry_word(rhat[1], Bool(s0.carry), FALSE))
      subtracted(qhat, rhat, sm) ==
        low(qhat, rhat, sm.u, sub_with_carry_word(rhat[0], sm.borrow, FALSE))
      \* overflow = submul(&u[j], &u[j], d, dlen - 2, qhat);
      divided(res) ==
        subtracted(res.quot, res.rem, submul(u, j, d, dlen - 2, res.quot))
  IN  IF operator_eq_128(uint128(u1, u2), divisor)
      THEN overflows(submul(u, j, d, dlen, WordMax))
      ELSE divided(udivrem_3by2(u2, u1, u0, divisor, reciprocal))

RECURSIVE udivrem_knuth_loop(_, _, _, _, _, _, _)
udivrem_knuth_loop(q, u, d, dlen, divisor, reciprocal, j) ==
  IF j < 0 THEN [q |-> q, u |-> u]
  ELSE LET next(st) ==
             udivrem_knuth_loop(st.q, st.u, d, dlen, divisor, reciprocal, j - 1)
       IN  next(udivrem_knuth_step(q, u, d, dlen, divisor, reciprocal, j))

\* internal::udivrem_knuth(q, u, ulen, d, dlen)
udivrem_knuth(q, u, ulen, d, dlen) ==
  IF ~(dlen >= 3) THEN Abort("INTX_REQUIRE(dlen >= 3)")
  ELSE IF ~(ulen >= dlen) THEN Abort("INTX_REQUIRE(ulen >= dlen)")
  ELSE LET divisor == uint128(d[dlen - 2], d[dlen - 1])
       IN  udivrem_knuth_loop(q, u, d, dlen, divisor, reciprocal_3by2(divisor),
                              ulen - dlen - 1)

\* Mutant of knuth_remainder: the remainder is left as normalize scaled it.
knuth_remainder_unshifted(un, nw, n, shift) ==
  [i \in 0 .. nw - 1 |-> IF i <= n - 1 THEN un[i] ELSE 0]

\* The remainder of the Knuth path: the low num_divisor_words words of un,
\* shifted back.
knuth_remainder(un, nw, n, shift) ==
  [i \in 0 .. nw - 1 |->
     IF i < n - 1
     THEN IF shift # 0
          THEN bit_or(shr(un[i], shift), shl(un[i + 1], WordBits - shift))
          ELSE un[i]
     ELSE IF i = n - 1 THEN shr(un[n - 1], shift)
     ELSE 0]

\* template udivrem(uint<M>, uint<N>) for M == N, after normalize
udivrem_normalized(u, na) ==
  LET nw == num_words(u)
      by1(r) ==
        IF Aborted(r) THEN r
        ELSE [quot |-> narrow(r.u, nw),
              rem |-> FromWord(nw, shr(r.rem, na.shift))]
      shifted(r, rs) ==
        [quot |-> narrow(r.u, nw),
         rem |-> [i \in 0 .. nw - 1 |-> IF i < 2 THEN rs[i] ELSE 0]]
      by2(r) ==
        IF Aborted(r) THEN r
        ELSE shifted(r, operator_shr_128(r.rem, na.shift))
      knuth(k) ==
        IF Aborted(k) THEN k
        ELSE [quot |-> k.q,
              rem |-> knuth_remainder(k.u, nw, na.num_divisor_words, na.shift)]
  IN  IF Aborted(na) THEN na
      ELSE IF na.num_numerator_words <= na.num_divisor_words
      THEN [quot |-> Zero(nw), rem |-> u]
      ELSE IF na.num_divisor_words = 1
      THEN by1(udivrem_by1(na.numerator, na.num_numerator_words, na.divisor[0]))
      ELSE IF na.num_divisor_words = 2
      THEN by2(udivrem_by2(na.numerator, na.num_numerator_words,
                           uint128(na.divisor[0], na.divisor[1])))
      ELSE knuth(udivrem_knuth(Zero(nw), na.numerator, na.num_numerator_words,
                               na.divisor, na.num_divisor_words))

\* udivrem<M, N> whose early return hands back the numerator as normalize
\* scaled it.
udivrem_N_early_scaled(u, v, jk) ==
  LET early(na) ==
        IF ~Aborted(na) /\ na.num_numerator_words <= na.num_divisor_words
        THEN [quot |-> Zero(num_words(u)),
              rem |-> narrow(na.numerator, num_words(u))]
        ELSE udivrem_normalized(u, na)
  IN  early(normalize(u, v, jk))

\* template udivrem(uint<M>, uint<N>) for M == N
udivrem_N(u, v, jk) == udivrem_normalized(u, normalize(u, v, jk))

\* Overload resolution of udivrem(x, y): the non-template uint128 overload
\* wins for two words.
udivrem(a, b, jk) ==
  IF num_words(a) = 2 THEN udivrem_128(a, b) ELSE udivrem_N(a, b, jk)

\* operator/ and operator%, which return udivrem(x, y).quot and .rem: the
\* outcome is the assertion failure of udivrem or the value returned.
operator_div(a, b, jk) ==
  LET quot(r) == IF Aborted(r) THEN r ELSE [value |-> r.quot]
  IN  quot(udivrem(a, b, jk))

operator_mod(a, b, jk) ==
  LET rem(r) == IF Aborted(r) THEN r ELSE [value |-> r.rem]
  IN  rem(udivrem(a, b, jk))

\* ------------------------------------------------------------------ text
\* A text is a sequence of characters, each a one-character string; a C
\* string ends with the terminator NUL, which is none of its characters.
NUL == "NUL"

\* The character codes that the digit arithmetic of the source uses.
ord ==
  [c \in {NUL} |-> 0]
  @@ ("/" :> 47) @@ ("0" :> 48) @@ ("1" :> 49) @@ ("2" :> 50) @@ ("3" :> 51)
  @@ ("4" :> 52) @@ ("5" :> 53) @@ ("6" :> 54) @@ ("7" :> 55) @@ ("8" :> 56)
  @@ ("9" :> 57) @@ (":" :> 58) @@ ("@" :> 64) @@ ("A" :> 65) @@ ("B" :> 66)
  @@ ("C" :> 67) @@ ("D" :> 68) @@ ("E" :> 69) @@ ("F" :> 70) @@ ("G" :> 71)
  @@ ("a" :> 97) @@ ("b" :> 98) @@ ("c" :> 99) @@ ("d" :> 100)
  @@ ("e" :> 101) @@ ("f" :> 102) @@ ("g" :> 103) @@ ("x" :> 120)

\* char(k)
chr(k) == CHOOSE c \in DOMAIN ord : ord[c] = k

\* s[i] of a C string: past the last character is the terminator.
at(text, i) == IF i < Len(text) THEN text[i + 1] ELSE NUL

\* throw_<E>(what)
Throw(e) == [throw |-> e]

Thrown(r) == "throw" \in DOMAIN r

\* from_dec_digit(c)
from_dec_digit(c) ==
  IF ord[c] < ord["0"] \/ ord[c] > ord["9"] THEN Throw("invalid_argument")
  ELSE [value |-> ord[c] - ord["0"]]

\* Mutant of from_hex_digit: an upper-case digit is taken from 'A' without
\* the ten.
from_hex_digit_upper_low(c) ==
  IF ord[c] >= ord["a"] /\ ord[c] <= ord["f"]
  THEN [value |-> ord[c] - (ord["a"] - 10)]
  ELSE IF ord[c] >= ord["A"] /\ ord[c] <= ord["F"]
  THEN [value |-> ord[c] - ord["A"]]
  ELSE from_dec_digit(c)

\* from_hex_digit(c)
from_hex_digit(c) ==
  IF ord[c] >= ord["a"] /\ ord[c] <= ord["f"]
  THEN [value |-> ord[c] - (ord["a"] - 10)]
  ELSE IF ord[c] >= ord["A"] /\ ord[c] <= ord["F"]
  THEN [value |-> ord[c] - (ord["A"] - 10)]
  ELSE from_dec_digit(c)

\* std::numeric_limits<uint<N>>::digits == CHAR_BIT * sizeof(type)
digits(n) == n * WordBits

\* std::numeric_limits<uint<N>>::digits10 == int(0.3010299956639812 * digits)
\* (30103 / 100000 gives the same integer for every digits below 10^5).
digits10(n) == (30103 * digits(n)) \div 100000

\* The hexadecimal loop of from_string: while (const auto c = *s++).
\* sizeof(x) * 2 is two hexadecimal digits a byte, digits(n) / 4 in all.
RECURSIVE from_string_hex(_, _, _, _)
from_string_hex(text, i, xx, num_digits) ==
  LET c == at(text, i)
      n == num_words(xx)
      d == from_hex_digit(c)
  IN  IF c = NUL THEN [value |-> xx]
      ELSE IF num_digits + 1 > digits(n) \div 4 THEN Throw("out_of_range")
      ELSE IF Thrown(d) THEN d
      ELSE from_string_hex(text, i + 1,
                           operator_or(operator_shl(xx, 4), FromWord(n, d.value)),
                           num_digits + 1)

\* The decimal loop of from_string.
RECURSIVE from_string_dec(_, _, _, _)
from_string_dec(text, i, xx, num_digits) ==
  LET c == at(text, i)
      n == num_words(xx)
      \* if (x < d) throw_<std::out_of_range>(str);
      checked(x1, d) ==
        IF operator_lt(x1, FromWord(n, d)) THEN Throw("out_of_range")
        ELSE from_string_dec(text, i + 1, x1, num_digits + 1)
      \* x = x * Int{10} + d;
      digit(d) ==
        IF Thrown(d) THEN d
        ELSE checked(operator_plus(operator_mul(xx, FromWord(n, 10)),
                                   FromWord(n, d.value)),
                     d.value)
  IN  IF c = NUL THEN [value |-> xx]
      ELSE IF num_digits > digits10(n) THEN Throw("out_of_range")
      ELSE digit(from_dec_digit(c))

\* from_string<uint<N>>(str), N == n words
from_string(n, text) ==
  IF at(text, 0) = "0" /\ at(text, 1) = "x"
  THEN from_string_hex(text, 2, Zero(n), 0)
  ELSE from_string_dec(text, 0, Zero(n), 0)

\* uint<N>{v} of an int v >= 0.  In the source v fits word 0; the scaled
\* word is narrower than the base 16, which then takes two words.
FromInt(n, v) == [i \in 0 .. n - 1 |-> (v \div Pow2(i * WordBits)) % B]

\* std::reverse(s.begin(), s.end())
reverse(text) == [i \in 1 .. Len(text) |-> text[Len(text) + 1 - i]]

\* Mutant of to_string_loop: a digit of ten or more is written from 'a'
\* without taking the ten off.
RECURSIVE to_string_loop_letters_high(_, _, _, _)
to_string_loop_letters_high(xx, bs, text, jk) ==
  IF operator_eq(xx, Zero(num_words(xx))) THEN [value |-> text]
  ELSE LET next(res) ==
             IF Aborted(res) THEN res
             ELSE LET d == res.rem[0]
                      c == IF d < 10 THEN chr(ord["0"] + d)
                           ELSE chr(ord["a"] + d - 9)
                  IN  to_string_loop_letters_high(res.quot, bs,
                                                  Append(text, c), jk)
       IN  next(udivrem(xx, FromInt(num_words(xx), bs), jk))

\* The loop of to_string: while (x != 0); the digits come out lowest first.
RECURSIVE to_string_loop(_, _, _, _)
to_string_loop(xx, bs, text, jk) ==
  IF operator_eq(xx, Zero(num_words(xx))) THEN [value |-> text]
  ELSE LET next(res) ==
             IF Aborted(res) THEN res
             ELSE LET d == res.rem[0]
                      c == IF d < 10 THEN chr(ord["0"] + d)
                           ELSE chr(ord["a"] + d - 10)
                  IN  to_string_loop(res.quot, bs, Append(text, c), jk)
       IN  next(udivrem(xx, FromInt(num_words(xx), bs), jk))

\* Mutant of to_string: the digits are not reversed.
to_string_unreversed(xx, bs, jk) ==
  IF bs < 2 \/ bs > 36 THEN Throw("invalid_argument")
  ELSE IF operator_eq(xx, Zero(num_words(xx))) THEN [value |-> <<"0">>]
  ELSE to_string_loop(xx, bs, <<>>, jk)

\* to_string(x, base)
to_string(xx, bs, jk) ==
  IF bs < 2 \/ bs > 36 THEN Throw("invalid_argument")
  ELSE IF operator_eq(xx, Zero(num_words(xx))) THEN [value |-> <<"0">>]
  ELSE LET reversed(r) ==
             IF Aborted(r) THEN r ELSE [value |-> reverse(r.value)]
       IN  reversed(to_string_loop(xx, bs, <<>>, jk))

\* hex(x)
hex(xx, jk) == to_string(xx, 16, jk)

\* ------------------------------------------------------------- operands
\* Words the operands are drawn from.  Two-word operands take every word
\* value; wider ones zero and all ones (where carries and borrows start and
\* stop) and, up to four words, one and, for three words, the top bit alone.
SampleWords(n) ==
  IF n = 2 THEN 0 .. WordMax
  ELSE IF n = 3 THEN {0, 1, B \div 2, WordMax}
  ELSE IF n = 4 THEN {0, 1, WordMax}
  ELSE {0, WordMax}

Widths == 2 .. MaxWords

Operands(n) == [0 .. n - 1 -> SampleWords(n)]

\* 2^(n * WordBits): the number of values of a uint of n words.
Modulus(n) == Pow2(n * WordBits)

\* Reference product (not code): a * b = q * m + r with 0 <= r < m, by
\* doubling, so that no intermediate value exceeds 2 * m.
RECURSIVE RefMul(_, _, _)
RefMul(a, b, m) ==
  IF b = 0 THEN [q |-> 0, r |-> 0]
  ELSE LET h == RefMul(a, b \div 2, m)
           t == 2 * h.r + (IF b % 2 = 1 THEN a % m ELSE 0)
           c == 2 * h.q + (IF b % 2 = 1 THEN a \div m ELSE 0)
       IN  [q |-> c + t \div m, r |-> t % m]

\* The words lo .. lo + n - 1 of v as a uint of n words (not code).
Slice(v, lo, n) == [i \in 0 .. n - 1 |-> v[lo + i]]

\* Operands of the multiplications: as above, with fewer two-word operands.
MulWords(n) ==
  IF n = 2 THEN {0, 1, 2, B \div 2 - 1, B \div 2, WordMax} ELSE SampleWords(n)

MulOperands(n) == [0 .. n - 1 -> MulWords(n)]

\* ---------------------------------------------------------- arithmetic
InitMul ==
  /\ pc = "start"
  /\ op = "none"
  /\ \E n \in Widths : x \in MulOperands(n) /\ y \in MulOperands(n)
  /\ s = 0
  /\ junk = 0
  /\ str = <<>>
  /\ base = 10
  /\ out = 0

InitArith ==
  /\ pc = "start"
  /\ op = "none"
  /\ \E n \in Widths : x \in Operands(n) /\ y \in Operands(n)
  /\ s = 0
  /\ junk = 0
  /\ str = <<>>
  /\ base = 10
  /\ out = 0

Done(name, result) ==
  /\ pc' = "done"
  /\ op' = name
  /\ out' = result
  /\ UNCHANGED <<x, y, s, junk, str, base>>

\* x + y
Add == pc = "start" /\ Done("add", operator_plus(x, y))

\* x - y
Sub == pc = "start" /\ Done("sub", operator_minus(x, y))

\* x * y
Mul == pc = "start" /\ Done("mul", operator_mul(x, y))

\* umul(x, y)
Umul == pc = "start" /\ Done("umul", umul(x, y))

\* x < y, x <= y, x > y, x >= y, x == y
Compare ==
  /\ pc = "start"
  /\ Done("compare", [lt |-> operator_lt(x, y), le |-> operator_le(x, y),
                      gt |-> operator_gt(x, y), ge |-> operator_ge(x, y),
                      eq |-> operator_eq(x, y)])

NextAddSub == Add \/ Sub

SpecAddSub == InitArith /\ [][NextAddSub]_vars

NextMul == Mul \/ Umul

SpecMul == InitMul /\ [][NextMul]_vars

NextCompare == Compare

SpecCompare == InitArith /\ [][NextCompare]_vars

\* ------------------------------------------------------ claims: + and -
AllOnes(n) == [i \in 0 .. n - 1 |-> WordMax]

\* C5: operator+ returns (a + b) mod 2^N and operator- returns
\* (a - b) mod 2^N; (a + b) - b == a; (2^N - 1) + 1 == 0: the carry of each
\* word reaches every higher word.
C5_AddSubWrapAround ==
  pc = "done" =>
    LET n == num_words(x)
        m == Modulus(n)
    IN  /\ op = "add" =>
             /\ Value(out) = (Value(x) + Value(y)) % m
             /\ operator_minus(out, y) = x
             /\ (x = AllOnes(n) /\ y = FromWord(n, 1)) => out = Zero(n)
        /\ op = "sub" => Value(out) = (Value(x) - Value(y)) % m

\* C5 happens: all ones plus one, three words wide, wraps to zero.
C5_Witness ==
  /\ pc = "done"
  /\ op = "add"
  /\ num_words(x) = 3
  /\ x = AllOnes(3)
  /\ y = FromWord(3, 1)
  /\ out = Zero(3)

\* ------------------------------------------------------------ claims: *
\* Third operands for associativity.
ThirdOperands(n) ==
  {FromWord(n, 3), [i \in 0 .. n - 1 |-> IF i = n - 1 THEN 1 ELSE WordMax]}

\* C6: the truncating operator*, in its uint128 form and in its word-loop
\* form, returns (x * y) mod 2^N, the low N bits of umul(x, y); it is
\* commutative and associative.
C6_MulTruncates ==
  (pc = "done" /\ op = "mul") =>
    LET n == num_words(x)
    IN  /\ Value(out) = RefMul(Value(x), Value(y), Modulus(n)).r
        /\ out = Slice(umul(x, y), 0, n)
        /\ operator_mul_N(x, y) = out
        /\ n = 2 => operator_mul_128(x, y) = out
        /\ operator_mul(y, x) = out
        /\ \A c \in ThirdOperands(n) :
             operator_mul(out, c) = operator_mul(x, operator_mul(y, c))

\* C6 happens: a product of three-word operands that overflows three words.
C6_Witness ==
  /\ pc = "done"
  /\ op = "mul"
  /\ num_words(x) = 3
  /\ x = AllOnes(3)
  /\ y = AllOnes(3)
  /\ out = FromWord(3, 1)

\* C7: umul(x, y) is the exact 2N-bit product, and no step
\* t = x[i] * y[j] + p[i + j] + k carries out of its two words.
C7_UmulExact ==
  (pc = "done" /\ op = "umul") =>
    LET n == num_words(x)
        r == RefMul(Value(x), Value(y), Modulus(n))
    IN  /\ num_words(out) = 2 * n
        /\ Value(Slice(out, 0, n)) = r.r
        /\ Value(Slice(out, n, n)) = r.q
        /\ ~umul_carry_lost(x, y, Zero(2 * n), 0, 0, 0)

\* C7 happens: the largest operands, whose inner step reaches 2^(2w) - 1.
C7_Witness ==
  /\ pc = "done"
  /\ op = "umul"
  /\ num_words(x) = 3
  /\ x = AllOnes(3)
  /\ y = AllOnes(3)
  /\ out[5] = WordMax
  /\ out[0] = 1

\* ----------------------------------------------------- claims: ordering
\* C8: x < y is the borrow of x - y, which is x numerically smaller than y;
\* the uint128 and uint256 forms of operator< agree with the borrow form;
\* <, <=, >, >= are a total order and x == y iff neither x < y nor y < x.
C8_OrderIsBorrow ==
  (pc = "done" /\ op = "compare") =>
    LET n == num_words(x)
    IN  /\ out.lt = (Value(x) < Value(y))
        /\ out.lt = sub_with_carry(x, y, FALSE).carry
        /\ out.lt = operator_lt_N(x, y)
        /\ n = 2 => /\ operator_lt_128_portable(x, y) = out.lt
                    /\ operator_lt_128_builtin(x, y) = out.lt
        /\ n = 4 => operator_lt_256(x, y) = out.lt
        /\ out.gt = (Value(x) > Value(y))
        /\ out.le = (Value(x) <= Value(y))
        /\ out.ge = (Value(x) >= Value(y))
        /\ out.eq = (~out.lt /\ ~out.gt)
        /\ out.eq = (x = y)
        /\ Cardinality({f \in {"lt", "eq", "gt"} : out[f]}) = 1

\* C8 happens: two uint256 with equal high halves, ordered by the low halves.
C8_Witness ==
  /\ pc = "done"
  /\ op = "compare"
  /\ num_words(x) = 4
  /\ x[3] = y[3] /\ x[2] = y[2] /\ x[3] = WordMax
  /\ x[1] < y[1] /\ x[0] > y[0]
  /\ out.lt
  /\ ~out.ge

\* --------------------------------------------------------------- shifting
\* Shift amounts of type uint64_t: everything below the width, the width
\* itself and a few amounts above it.
ShiftAmounts(n) == 0 .. n * WordBits + 2

\* Shift amounts of the operand's own type: word 0 anything of interest, and
\* the words above it all zero or zero but for one word.
WideShiftAmounts(n) ==
  {sh \in [0 .. n - 1 -> {0, 1, WordMax}] :
     /\ Cardinality({i \in 1 .. n - 1 : sh[i] # 0}) <= 1
     /\ sh[0] \in {0, 1}}
  \cup {FromWord(n, w) : w \in 0 .. WordMax}

InitShift ==
  /\ pc = "start"
  /\ op = "none"
  /\ \E n \in Widths :
       /\ x \in Operands(n)
       /\ \/ s \in ShiftAmounts(n) /\ y = Zero(n)
          \/ s = 0 /\ y \in WideShiftAmounts(n)
  /\ junk = 0
  /\ str = <<>>
  /\ base = 10
  /\ out = 0

\* x << s, s a uint64_t
ShiftLeft == pc = "start" /\ Done("shl", operator_shl(x, s))

\* x >> s, s a uint64_t
ShiftRight == pc = "start" /\ Done("shr", operator_shr(x, s))

\* x << y, y of x's type
ShiftLeftWide == pc = "start" /\ Done("shl_wide", operator_shl_wide(x, y))

\* x >> y, y of x's type
ShiftRightWide == pc = "start" /\ Done("shr_wide", operator_shr_wide(x, y))

NextShift == ShiftLeft \/ ShiftRight \/ ShiftLeftWide \/ ShiftRightWide

SpecShift == InitShift /\ [][NextShift]_vars

\* C9: x << s and x >> s are zero when the uint64_t amount s is at least N,
\* and when the amount is of x's type with a nonzero word above word 0,
\* whatever word 0 is.
C9_OverlongShiftIsZero ==
  pc = "done" =>
    LET n == num_words(x)
    IN  /\ (op \in {"shl", "shr"} /\ s >= n * WordBits) => out = Zero(n)
        /\ (op \in {"shl_wide", "shr_wide"} /\ \E i \in 1 .. n - 1 : y[i] # 0)
             => out = Zero(n)

\* C9 happens: a nonzero three-word value shifted by an amount whose word 1
\* alone is set, and whose word 0 is a valid shift distance.
C9_Witness ==
  /\ pc = "done"
  /\ op = "shl_wide"
  /\ num_words(x) = 3
  /\ x = AllOnes(3)
  /\ y[0] = 1 /\ y[1] = 1 /\ y[2] = 0
  /\ out = Zero(3)

\* C10: for 0 <= s < N the word-loop shifts give x << s == (x * 2^s) mod 2^N
\* and x >> s == floor(x / 2^s), also when s is a multiple of the word size;
\* no word is shifted by the word size or more; (a << 0) >> 0 == a.
C10_WordLoopShift ==
  (pc = "done" /\ op \in {"shl", "shr"} /\ s < num_bits(x)) =>
    LET n == num_words(x)
    IN  /\ op = "shl" =>
             Value(operator_shl_N(x, s))
               = RefMul(Value(x), Pow2(s), Modulus(n)).r
        /\ op = "shr" => Value(operator_shr_N(x, s)) = Value(x) \div Pow2(s)
        /\ n \notin {2, 4} =>
             out = IF op = "shl" THEN operator_shl_N(x, s)
                                 ELSE operator_shr_N(x, s)
        /\ \A d \in ShiftDistances_N(s) : 0 <= d /\ d < WordBits
        /\ s = 0 => operator_shr_N(operator_shl_N(x, 0), 0) = x

\* C10 happens: a three-word value shifted left by exactly one word.
C10_Witness ==
  /\ pc = "done"
  /\ op = "shl"
  /\ num_words(x) = 3
  /\ s = WordBits
  /\ x = AllOnes(3)
  /\ out = [i \in 0 .. 2 |-> IF i = 0 THEN 0 ELSE WordMax]

\* C11: for a uint128 and a uint256 and every uint64_t shift amount, zero,
\* the half width and amounts of the width and more included, the
\* half-splitting operator<< and operator>> return what the word-loop
\* template returns for the same words.
C11_SpecializedShiftsAgree ==
  (pc = "done" /\ op \in {"shl", "shr"} /\ num_words(x) \in {2, 4}) =>
    /\ op = "shl" => out = operator_shl_N(x, s)
    /\ op = "shr" => out = operator_shr_N(x, s)
    /\ (op = "shl" /\ num_words(x) = 2) => out = operator_shl_128(x, s)
    /\ (op = "shr" /\ num_words(x) = 2) => out = operator_shr_128(x, s)
    /\ (op = "shl" /\ num_words(x) = 4) => out = operator_shl_256(x, s)
    /\ (op = "shr" /\ num_words(x) = 4) => out = operator_shr_256(x, s)

\* C11 happens: a uint256 shifted left by three words and one bit, so that
\* a bit of word 0 crosses the half boundary into word 3.
C11_Witness ==
  /\ pc = "done"
  /\ op = "shl"
  /\ num_words(x) = 4
  /\ s = 3 * WordBits + 1
  /\ x = FromWord(4, WordMax)
  /\ out = uint256(0, 0, 0, WordMax - 1)

\* --------------------------------------------------------------- division
\* Words the operands of a division are drawn from: every word for two
\* words, and for more the words that make quotient digits of 0, 1 and
\* WordMax and divisors that are and are not normalized.
DivWords(n) ==
  IF n = 2 THEN 0 .. WordMax
  ELSE IF n = 3 THEN {0, 1, B \div 2 - 1, B \div 2, WordMax}
  ELSE IF n = 4 THEN {0, 1, B \div 2, WordMax}
  ELSE {0, WordMax}

DivOperands(n) == [0 .. n - 1 -> DivWords(n)]

\* What the memory in front of the arrays v, un and vn of normalize may hold.
JunkWords == [v : {0, 1, WordMax}, un : {0, WordMax}, vn : {0, WordMax}]

NoJunk == [v |-> 0, un |-> 0, vn |-> 0]

\* normalize reads in front of an array only when the numerator or the
\* divisor has no significant word.
InitDiv ==
  /\ pc = "start"
  /\ op = "none"
  /\ \E n \in Widths : x \in DivOperands(n) /\ y \in DivOperands(n)
  /\ s = 0
  /\ IF x = Zero(num_words(x)) \/ y = Zero(num_words(y))
     THEN junk \in JunkWords
     ELSE junk = NoJunk
  /\ str = <<>>
  /\ base = 10
  /\ out = 0

\* udivrem(x, y)
Divide == pc = "start" /\ Done("udivrem", udivrem(x, y, junk))

\* x / y
Quotient == pc = "start" /\ Done("div", operator_div(x, y, junk))

\* x % y
Remainder == pc = "start" /\ Done("mod", operator_mod(x, y, junk))

NextDiv == Divide \/ Quotient \/ Remainder

SpecDiv == InitDiv /\ [][NextDiv]_vars

\* C1: for b # 0, udivrem(a, b) returns (q, r) with a == q * b + r over the
\* integers and r < b; operator/ returns q and operator% returns r.
C1_DivisionLaw ==
  (pc = "done" /\ y # Zero(num_words(y))) =>
    LET a == Value(x)
        b == Value(y)
    IN  /\ ~Aborted(out)
        /\ op = "udivrem" =>
             /\ Value(out.rem) < b
             /\ Value(out.rem) <= a
             /\ (a - Value(out.rem)) % b = 0
             /\ (a - Value(out.rem)) \div b = Value(out.quot)
             /\ num_words(out.quot) = num_words(x)
             /\ num_words(out.rem) = num_words(x)
        /\ op = "div" => Value(out.value) = a \div b
        /\ op = "mod" => Value(out.value) = a % b

\* C1 happens: the four-word value with all words set divided by a divisor
\* of exactly three significant words, through Knuth's loop.
C1_Witness ==
  /\ pc = "done"
  /\ op = "udivrem"
  /\ x = AllOnes(4)
  /\ y = [i \in 0 .. 3 |-> IF i = 3 THEN 0 ELSE WordMax]
  /\ out = [quot |-> FromInt(4, B), rem |-> FromWord(4, WordMax)]

\* C2: a division by zero, whatever the numerator, ends in an assertion
\* failure and returns no quotient or remainder.
C2_DivisionByZeroFlagged ==
  (pc = "done" /\ y = Zero(num_words(y))) => Aborted(out)

\* The top word of v scaled by 2^shift, with what the shift pushes out of
\* it, for v of k significant words (not code).
TopDigit(v, k, shift) == (Value(v) * Pow2(shift)) \div Pow2(WordBits * (k - 1))

\* C18, as claimed: in udivrem<M, N>, when the numerator has no more
\* significant words than the (non-zero) divisor, the quotient is 0 and the
\* remainder is the numerator.
C18_ShortNumeratorAsClaimed ==
  (/\ pc = "done" /\ op = "udivrem" /\ num_words(x) > 2
   /\ y # Zero(num_words(y))
   /\ trim(x, num_words(x)) <= trim(y, num_words(y))) =>
    out = [quot |-> Zero(num_words(x)), rem |-> x]

\* C18, amended: the same when the numerator has fewer significant words
\* than the divisor, or as many and its top word, scaled as normalize scales
\* it, is below the divisor's.
C18_ShortNumerator ==
  (/\ pc = "done" /\ op = "udivrem" /\ num_words(x) > 2
   /\ y # Zero(num_words(y))) =>
    LET m == trim(x, num_words(x))
        n == trim(y, num_words(y))
        shift == clz(y[n - 1])
    IN  (m < n \/ (m = n /\ TopDigit(x, n, shift) < TopDigit(y, n, shift))) =>
          out = [quot |-> Zero(num_words(x)), rem |-> x]

\* C18 happens: 0x10F by 0x1F0 on four words, both of three significant
\* words, the divisor scaled by three bits.
C18_Witness ==
  /\ pc = "done"
  /\ op = "udivrem"
  /\ x = uint256(WordMax, 0, 1, 0)
  /\ y = uint256(0, WordMax, 1, 0)
  /\ out = [quot |-> Zero(4), rem |-> x]

\* C25: for a non-zero divisor, normalize gives shift = clz of the top
\* non-zero word of v, below the word's bits; a divisor v * 2^shift whose top
\* significant word has its top bit set; a numerator of one word more equal
\* to u * 2^shift; and the remainder that udivrem returns is the remainder
\* of the normalized operands shifted right by shift.
C25_NormalizeScales ==
  (pc = "done" /\ num_words(x) > 2 /\ y # Zero(num_words(y))) =>
    LET na == normalize(x, y, junk)
        n == trim(y, num_words(y))
    IN  /\ ~Aborted(na)
        /\ na.shift = clz(y[n - 1])
        /\ na.shift \in 0 .. WordBits - 1
        /\ num_words(na.divisor) = num_words(y)
        /\ Value(na.divisor) = Value(y) * Pow2(na.shift)
        /\ na.num_divisor_words = n
        /\ na.divisor[n - 1] >= B \div 2
        /\ num_words(na.numerator) = num_words(x) + 1
        /\ Value(na.numerator) = Value(x) * Pow2(na.shift)
        /\ op = "udivrem" =>
             Value(out.rem) * Pow2(na.shift)
               = Value(na.numerator) % Value(na.divisor)
        /\ op = "mod" =>
             Value(out.value) * Pow2(na.shift)
               = Value(na.numerator) % Value(na.divisor)

\* C25 happens: 0xFFFF by 0x1F0, scaled by three bits, the numerator's top
\* bits carried into its fifth word; the quotient is 0x84, the remainder 0x3F.
C25_Witness ==
  /\ pc = "done"
  /\ op = "udivrem"
  /\ x = AllOnes(4)
  /\ y = uint256(0, WordMax, 1, 0)
  /\ normalize(x, y, junk).shift = 3
  /\ normalize(x, y, junk).numerator[4] = B \div 2 - 1
  /\ out = [quot |-> uint256(4, B \div 2, 0, 0), rem |-> uint256(WordMax, 3, 0, 0)]

\* The words that the check of normalize reads after the trimming loops,
\*   if (un[m] != 0 || un[m - 1] >= vn[n - 1])
\* un[m] always, and un[m - 1] and vn[n - 1] when un[m] is zero.
normalize_check_reads(u, v) ==
  LET m == trim(u, num_words(u))
      n == trim(v, num_words(v))
  IN  [un |-> {m} \cup (IF normalize(u, v, NoJunk).numerator[m] # 0
                        THEN {} ELSE {m - 1}),
       vn |-> IF normalize(u, v, NoJunk).numerator[m] # 0 THEN {} ELSE {n - 1}]

\* C27: for every numerator, zero included, and every non-zero divisor the
\* check of normalize reads only words of its buffers, 0 .. M/64 of the
\* widened numerator and 0 .. N/64 - 1 of the divisor, so un[m - 1] is never
\* read with m == 0 and what normalize returns does not depend on the memory
\* around the buffers; and 0 / b returns the quotient 0 and the remainder 0.
C27_ReadsInsideBuffers ==
  (/\ pc = "done" /\ op = "udivrem" /\ num_words(x) > 2
   /\ y # Zero(num_words(y))) =>
    /\ normalize_check_reads(x, y).un \subseteq 0 .. num_words(x)
    /\ normalize_check_reads(x, y).vn \subseteq 0 .. num_words(y) - 1
    /\ \A jk \in JunkWords : normalize(x, y, jk) = normalize(x, y, junk)
    /\ x = Zero(num_words(x)) =>
         out = [quot |-> Zero(num_words(x)), rem |-> Zero(num_words(x))]

\* ------------------------------------------------------------------- text
\* All texts of at most k characters of the set S.
Texts(S, k) == UNION {[1 .. m -> S] : m \in 0 .. k}

DecChars(n) ==
  IF n = 2 THEN {"0", "1", "2", "3", "4", "5", "6", "7", "8", "9"}
  ELSE IF n = 3 THEN {"0", "1", "4", "5", "9"}
  ELSE IF n = 4 THEN {"0", "5", "6", "9"}
  ELSE {"0", "9"}

HexChars(n) ==
  IF n <= 3 THEN {"0", "9", "a", "f", "A", "F", "g"} ELSE {"0", "a", "F", "g"}

\* The texts given to from_string: decimal texts up to one digit more than
\* the digit limit lets through, 0x texts up to one digit more than fit, and
\* texts with characters just outside the digits.
ParseTexts(n) ==
  Texts(DecChars(n), digits10(n) + 2)
  \cup {<<"0", "x">> \o h : h \in Texts(HexChars(n), digits(n) \div 4 + 1)}
  \cup Texts({"/", ":", "@", "G", "x", "0"}, 2)
  \cup {<<"0", "x">> \o h : h \in Texts({"/", ":", "@", "G", "f"}, 2)}

\* The bases given to to_string.  A digit of a base above 16 does not fit
\* the scaled word and is not drawn.
Bases == {0, 1, 2, 3, 7, 10, 16, 37}

InitText ==
  /\ op = "none"
  /\ s = 0
  /\ junk = NoJunk
  /\ out = 0
  /\ \E n \in Widths :
       /\ y = Zero(n)
       /\ \/ pc = "parse" /\ x = Zero(n) /\ str \in ParseTexts(n) /\ base = 10
          \/ pc = "format" /\ x \in Operands(n) /\ str = <<>> /\ base \in Bases

\* from_string<uint<N>>(str)
Parse == pc = "parse" /\ Done("from_string", from_string(num_words(x), str))

\* str = to_string(x, base)
Format ==
  /\ pc = "format"
  /\ LET r == to_string(x, base, junk)
     IN  IF Thrown(r) \/ Aborted(r) THEN Done("to_string", r)
         ELSE /\ pc' = "formatted"
              /\ op' = "to_string"
              /\ str' = r.value
              /\ UNCHANGED <<x, y, s, junk, base, out>>

\* from_string<uint<N>>(str) of the text that to_string returned
ParseBack ==
  pc = "formatted" /\ Done("round_trip", from_string(num_words(x), str))

\* from_string<uint<N>>("0x" + hex(x))
ParseBackHex ==
  /\ pc = "formatted"
  /\ base = 16
  /\ Done("round_trip_0x", from_string(num_words(x), <<"0", "x">> \o str))

NextText == Parse \/ Format \/ ParseBack \/ ParseBackHex

SpecText == InitText /\ [][NextText]_vars

\* The number a text of decimal digits denotes (not code).
RECURSIVE DecValue(_)
DecValue(text) ==
  IF text = <<>> THEN 0
  ELSE 10 * DecValue(SubSeq(text, 1, Len(text) - 1))
       + (ord[text[Len(text)]] - ord["0"])

IsDecimal(text) ==
  /\ text # <<>>
  /\ \A i \in 1 .. Len(text) : ord[text[i]] \in ord["0"] .. ord["9"]

\* C3: from_string of a text of decimal digits whose value exceeds 2^N - 1
\* throws out_of_range and never returns a wrapped value; of one without
\* leading zeros whose value is at most 2^N - 1 it returns that value.
C3_DecimalOverflowRejected ==
  (pc = "done" /\ op = "from_string" /\ IsDecimal(str)) =>
    LET n == num_words(x)
    IN  IF DecValue(str) > Modulus(n) - 1
        THEN out = Throw("out_of_range")
        ELSE (str[1] # "0" \/ Len(str) = 1) =>
               out = [value |-> FromInt(n, DecValue(str))]

\* The original C4: from_string(to_string(x, base)) == x for the bases 10
\* and 16.
C4_RoundTripAsClaimed ==
  (pc = "done" /\ op = "round_trip" /\ base \in {10, 16}) =>
    out = [value |-> x]

\* C4, amended: from_string(to_string(x, 10)) == x, and
\* from_string("0x" + to_string(x, 16)) == x, for every x including 0 and
\* 2^N - 1.
C4_RoundTrip ==
  /\ (pc = "done" /\ op = "round_trip" /\ base = 10) => out = [value |-> x]
  /\ (pc = "done" /\ op = "round_trip_0x") => out = [value |-> x]

\* C4 happens: the largest three-word value, formatted in base 10, comes
\* back from its four digits.
C4_Witness ==
  /\ pc = "done"
  /\ op = "round_trip"
  /\ base = 10
  /\ x = AllOnes(3)
  /\ str = <<"4", "0", "9", "5">>
  /\ out = [value |-> AllOnes(3)]

\* ------------------------------------------------- claims: hexadecimal text
\* The hexadecimal digits and what each is worth (not code).
HexDigitValue ==
  ("0" :> 0) @@ ("1" :> 1) @@ ("2" :> 2) @@ ("3" :> 3) @@ ("4" :> 4)
  @@ ("5" :> 5) @@ ("6" :> 6) @@ ("7" :> 7) @@ ("8" :> 8) @@ ("9" :> 9)
  @@ ("a" :> 10) @@ ("b" :> 11) @@ ("c" :> 12) @@ ("d" :> 13)
  @@ ("e" :> 14) @@ ("f" :> 15)
  @@ ("A" :> 10) @@ ("B" :> 11) @@ ("C" :> 12) @@ ("D" :> 13)
  @@ ("E" :> 14) @@ ("F" :> 15)

IsHexDigit(c) == c \in DOMAIN HexDigitValue

\* The number a text of hexadecimal digits denotes (not code).
RECURSIVE HexValue(_)
HexValue(text) ==
  IF text = <<>> THEN 0
  ELSE 16 * HexValue(SubSeq(text, 1, Len(text) - 1))
       + HexDigitValue[text[Len(text)]]

HasHexPrefix(text) == Len(text) >= 2 /\ text[1] = "0" /\ text[2] = "x"

\* The characters after the prefix 0x.
HexBody(text) == SubSeq(text, 3, Len(text))

\* The most hexadecimal digits a uint of n words holds: N / 4.
HexLimit(n) == (n * WordBits) \div 4

\* The original C12: from_string of a 0x text throws out_of_range exactly
\* when more than N/4 hexadecimal digits follow the prefix, throws
\* invalid_argument when any character is not a hexadecimal digit, and
\* otherwise returns the value of the digits.
C12_HexParseAsClaimed ==
  (pc = "done" /\ op = "from_string" /\ HasHexPrefix(str)) =>
    LET n == num_words(x)
        h == HexBody(str)
    IN  IF \E i \in 1 .. Len(h) : ~IsHexDigit(h[i])
        THEN out = Throw("invalid_argument")
        ELSE IF Len(h) > HexLimit(n) THEN out = Throw("out_of_range")
        ELSE out = [value |-> FromInt(n, HexValue(h))]

\* C12, amended: from_string of a 0x text throws invalid_argument when one
\* of the first N/4 characters after the prefix is not a hexadecimal digit;
\* otherwise it throws out_of_range when more than N/4 characters follow the
\* prefix, whatever the characters past the first N/4 are; otherwise it
\* returns the value of the digits, each digit shifting the value left by 4
\* bits, and no accepted text loses high bits.
C12_HexParse ==
  (pc = "done" /\ op = "from_string" /\ HasHexPrefix(str)) =>
    LET n == num_words(x)
        h == HexBody(str)
        k == IF Len(h) < HexLimit(n) THEN Len(h) ELSE HexLimit(n)
    IN  IF \E i \in 1 .. k : ~IsHexDigit(h[i])
        THEN out = Throw("invalid_argument")
        ELSE IF Len(h) > HexLimit(n) THEN out = Throw("out_of_range")
        ELSE /\ out = [value |-> FromInt(n, HexValue(h))]
             /\ Value(out.value) = HexValue(h)

\* C12 happens: the most digits three words hold, lower and upper case
\* mixed, with the top bit set.
C12_Witness ==
  /\ pc = "done"
  /\ op = "from_string"
  /\ num_words(x) = 3
  /\ str = <<"0", "x", "f", "A", "9">>
  /\ out = [value |-> [i \in 0 .. 2 |-> IF i = 0 THEN 9 ELSE IF i = 1 THEN 10 ELSE 15]]

\* ------------------------------------------------------ claims: to_string
\* The digits of to_string and what each is worth (not code).
DigitValue ==
  ("0" :> 0) @@ ("1" :> 1) @@ ("2" :> 2) @@ ("3" :> 3) @@ ("4" :> 4)
  @@ ("5" :> 5) @@ ("6" :> 6) @@ ("7" :> 7) @@ ("8" :> 8) @@ ("9" :> 9)
  @@ ("a" :> 10) @@ ("b" :> 11) @@ ("c" :> 12) @@ ("d" :> 13)
  @@ ("e" :> 14) @@ ("f" :> 15)

\* The number that a text of digits denotes in the base bs, most significant
\* digit first (not code).
RECURSIVE PositionalValue(_, _)
PositionalValue(text, bs) ==
  IF text = <<>> THEN 0
  ELSE bs * PositionalValue(SubSeq(text, 1, Len(text) - 1), bs)
       + DigitValue[text[Len(text)]]

\* C13: for a base in 2..36, to_string(x, base) is the digits of x in that
\* base, most significant first, without a leading zero, digits 0-9 then
\* a-z, and their positional value is x; zero gives "0"; a base outside
\* 2..36 throws and no text is produced.
C13_ToStringDigits ==
  /\ pc = "formatted" =>
       /\ base \in 2 .. 36
       /\ Len(str) >= 1
       /\ \A i \in 1 .. Len(str) :
            str[i] \in DOMAIN DigitValue /\ DigitValue[str[i]] < base
       /\ (Len(str) > 1 => str[1] # "0")
       /\ PositionalValue(str, base) = Value(x)
       /\ (x = Zero(num_words(x)) => str = <<"0">>)
  /\ (pc = "done" /\ op = "to_string") =>
       /\ base \notin 2 .. 36
       /\ out = Throw("invalid_argument")
       /\ str = <<>>

\* C13 happens: the largest three-word value in base 7.
C13_Witness ==
  /\ pc = "formatted"
  /\ op = "to_string"
  /\ base = 7
  /\ x = AllOnes(3)
  /\ str = <<"1", "4", "6", "4", "0">>

\* ------------------------------------------------------------ byte order
\* The bits of a uint8_t, scaled as the word is: a word keeps several bytes.
ByteBits == 1

BytesPerWord == WordBits \div ByteBits

\* The byte at offset k of the storage of the word w, on a little-endian host.
byte_of(w, k) == (w \div Pow2(ByteBits * k)) % Pow2(ByteBits)

\* The word whose bytes, least significant first, are b[lo .. lo + k - 1].
RECURSIVE word_of_bytes(_, _, _)
word_of_bytes(b, lo, k) ==
  IF k = 0 THEN 0
  ELSE b[lo] + Pow2(ByteBits) * word_of_bytes(b, lo + 1, k - 1)

\* bswap(uint64_t) by __builtin_bswap64.
bswap_word_builtin(w) ==
  word_of_bytes([k \in 0 .. BytesPerWord - 1 |->
                   byte_of(w, BytesPerWord - 1 - k)], 0, BytesPerWord)

\* The masks 0x00FF00FF00FF00FF and 0xFF00FF00FF00FF00, scaled.
SwapMaskLow == WordMax \div (Pow2(ByteBits) + 1)

SwapMaskHigh == shl(SwapMaskLow, ByteBits)

\* bswap(uint64_t), the portable path: neighbouring bytes change places, then
\* the halves of the word (the scaled word has four bytes, so the source's
\* middle stage on pairs of bytes is its last).
bswap_word_portable(w) ==
  LET a == bit_or(bit_and(shl(w, ByteBits), SwapMaskHigh),
                  bit_and(shr(w, ByteBits), SwapMaskLow))
  IN  bit_or(shl(a, HalfBits), shr(a, HalfBits))

bswap_word(w) == bswap_word_portable(w)

\* bswap(uint128)
bswap_128(v) == uint128(bswap_word(v[1]), bswap_word(v[0]))

\* bswap<N> with the order of the words kept.
bswap_N_words_in_place(v) == [i \in DOMAIN v |-> bswap_word(v[i])]

\* bswap<N>: z[num_words - 1 - i] = bswap(x[i]).
bswap_N(v) == [i \in DOMAIN v |-> bswap_word(v[num_words(v) - 1 - i])]

bswap(v) == IF num_words(v) = 2 THEN bswap_128(v) ELSE bswap_N(v)

\* as_bytes(x): the words' storage read as bytes, on a little-endian host.
as_bytes(v) ==
  [k \in 0 .. num_words(v) * BytesPerWord - 1 |->
     byte_of(v[k \div BytesPerWord], k % BytesPerWord)]

\* std::memcpy(&x, bytes, sizeof(x)) into a uint of n words.
from_bytes(n, b) ==
  [i \in 0 .. n - 1 |-> word_of_bytes(b, i * BytesPerWord, BytesPerWord)]

\* le::load<IntT>(bytes)
le_load(n, b) == from_bytes(n, b)

\* le::store(dst, x)
le_store(v) == as_bytes(v)

\* be::load<IntT>(bytes), bytes of m <= N / 8 elements.
be_load(n, b, m) ==
  LET placed(xb) == bswap(from_bytes(n, xb))
  IN  placed([k \in 0 .. n * BytesPerWord - 1 |->
                IF k >= n * BytesPerWord - m
                THEN b[k - (n * BytesPerWord - m)] ELSE 0])

\* be::store(dst, x)
be_store(v) == as_bytes(bswap(v))

InitBytes ==
  /\ pc = "start"
  /\ op = "none"
  /\ \E n \in Widths : x \in Operands(n) /\ y = Zero(n)
  /\ s = 0
  /\ junk = 0
  /\ str = <<>>
  /\ base = 10
  /\ out = 0

\* le::store(dst, x); str holds dst.
StoreLE ==
  /\ pc = "start"
  /\ pc' = "stored"
  /\ op' = "le"
  /\ str' = le_store(x)
  /\ UNCHANGED <<x, y, s, junk, base, out>>

\* be::store(dst, x); str holds dst.
StoreBE ==
  /\ pc = "start"
  /\ pc' = "stored"
  /\ op' = "be"
  /\ str' = be_store(x)
  /\ UNCHANGED <<x, y, s, junk, base, out>>

\* le::load<uint<N>>(dst)
LoadLE ==
  /\ pc = "stored"
  /\ op = "le"
  /\ pc' = "done"
  /\ out' = le_load(num_words(x), str)
  /\ UNCHANGED <<op, x, y, s, junk, str, base>>

\* be::load<uint<N>>(dst)
LoadBE ==
  /\ pc = "stored"
  /\ op = "be"
  /\ pc' = "done"
  /\ out' = be_load(num_words(x), str, num_words(x) * BytesPerWord)
  /\ UNCHANGED <<op, x, y, s, junk, str, base>>

\* bswap(x)
Bswap ==
  /\ pc = "start"
  /\ pc' = "swapped"
  /\ op' = "bswap"
  /\ out' = bswap(x)
  /\ UNCHANGED <<x, y, s, junk, str, base>>

\* bswap(bswap(x))
BswapBack ==
  /\ pc = "swapped"
  /\ pc' = "done"
  /\ out' = bswap(out)
  /\ UNCHANGED <<op, x, y, s, junk, str, base>>

NextBytes == StoreLE \/ StoreBE \/ LoadLE \/ LoadBE \/ Bswap \/ BswapBack

SpecBytes == InitBytes /\ [][NextBytes]_vars

\* --------------------------------------------------- claims: byte order
\* Byte k of the number v, counted from the least significant one.
ValueByte(v, k) == (v \div Pow2(ByteBits * k)) % Pow2(ByteBits)

NumBytes(v) == num_words(v) * BytesPerWord

\* C14: loading what le::store or be::store wrote gives x back; the
\* little-endian image holds the bytes of x least significant first and the
\* big-endian image is that image with all N/8 bytes in reverse order; bswap
\* reverses the bytes of x (by either path of the word bswap) and bswap of
\* bswap is x.
C14_ByteOrderRoundTrip ==
  /\ (pc = "stored" /\ op = "le") =>
       /\ DOMAIN str = 0 .. NumBytes(x) - 1
       /\ \A k \in DOMAIN str : str[k] = ValueByte(Value(x), k)
  /\ (pc = "stored" /\ op = "be") =>
       /\ DOMAIN str = 0 .. NumBytes(x) - 1
       /\ \A k \in DOMAIN str :
            str[k] = ValueByte(Value(x), NumBytes(x) - 1 - k)
  /\ (pc = "done" /\ op \in {"le", "be"}) => out = x
  /\ (pc = "swapped") =>
       /\ \A k \in 0 .. NumBytes(x) - 1 :
            ValueByte(Value(out), k) = ValueByte(Value(x), NumBytes(x) - 1 - k)
       /\ \A i \in DOMAIN x : bswap_word_builtin(x[i]) = bswap_word_portable(x[i])
  /\ (pc = "done" /\ op = "bswap") => out = x

\* The three words F, 0, 1 (least significant first) stored big-endian and
\* loaded back: the image starts with the top word's bytes in reverse order.
C14_Witness ==
  /\ pc = "done"
  /\ op = "be"
  /\ x = [i \in 0 .. 2 |-> IF i = 0 THEN WordMax ELSE IF i = 1 THEN 0 ELSE 1]
  /\ str = [k \in 0 .. 11 |-> IF k = 3 \/ k >= 8 THEN 1 ELSE 0]
  /\ out = x

\* ------------------------------------------------------ signed operations
\* operator&(uint<N>, uint<N>)
operator_and(a, b) == [i \in DOMAIN a |-> bit_and(a[i], b[i])]

\* operator~(uint<N>)
operator_not(a) == [i \in DOMAIN a |-> WordMax - a[i]]

\* Unary operator-: 0 - x for uint128, ~x + uint<N>{1} otherwise.
operator_neg(a) ==
  IF num_words(a) = 2 THEN operator_minus(Zero(2), a)
  ELSE operator_plus(operator_not(a), FromWord(num_words(a), 1))

\* slt with the sign bits ignored.
slt_unsigned(a, b) == operator_lt(a, b)

\* slt(x, y): static_cast<int64_t>(top word) < 0 is the top bit of the word.
slt(a, b) ==
  LET top_word_idx == num_words(a) - 1
      x_neg == a[top_word_idx] >= B \div 2
      y_neg == b[top_word_idx] >= B \div 2
  IN  IF x_neg # y_neg THEN x_neg ELSE operator_lt(a, b)

\* sdivrem whose remainder takes the sign of the quotient.
sdivrem_rem_sign_of_quotient(u, v, jk) ==
  LET n == num_words(u)
      sign_mask == operator_shl(FromWord(n, 1), n * WordBits - 1)
      u_is_neg == ~operator_eq(operator_and(u, sign_mask), Zero(n))
      v_is_neg == ~operator_eq(operator_and(v, sign_mask), Zero(n))
      q_is_neg == u_is_neg # v_is_neg
      signed(res) ==
        IF Aborted(res) THEN res
        ELSE [quot |-> IF q_is_neg THEN operator_neg(res.quot) ELSE res.quot,
              rem |-> IF q_is_neg THEN operator_neg(res.rem) ELSE res.rem]
  IN  signed(udivrem(IF u_is_neg THEN operator_neg(u) ELSE u,
                     IF v_is_neg THEN operator_neg(v) ELSE v, jk))

\* sdivrem(u, v), for uint128 and for uint<N>: the outcome is the assertion
\* failure of udivrem or the pair returned.
sdivrem(u, v, jk) ==
  LET n == num_words(u)
      sign_mask == operator_shl(FromWord(n, 1), n * WordBits - 1)
      u_is_neg == ~operator_eq(operator_and(u, sign_mask), Zero(n))
      v_is_neg == ~operator_eq(operator_and(v, sign_mask), Zero(n))
      q_is_neg == u_is_neg # v_is_neg
      signed(res) ==
        IF Aborted(res) THEN res
        ELSE [quot |-> IF q_is_neg THEN operator_neg(res.quot) ELSE res.quot,
              rem |-> IF u_is_neg THEN operator_neg(res.rem) ELSE res.rem]
  IN  signed(udivrem(IF u_is_neg THEN operator_neg(u) ELSE u,
                     IF v_is_neg THEN operator_neg(v) ELSE v, jk))

\* Words the signed operands are drawn from: with the words that make the
\* least and the greatest signed value and minus one.
SignedWords(n) ==
  IF n = 2 THEN 0 .. WordMax
  ELSE IF n = 3 THEN {0, 1, B \div 2 - 1, B \div 2, WordMax}
  ELSE IF n = 4 THEN {0, B \div 2, WordMax}
  ELSE {0, WordMax}

SignedOperands(n) == [0 .. n - 1 -> SignedWords(n)]

InitSigned ==
  /\ pc = "start"
  /\ op = "none"
  /\ \E n \in Widths : x \in SignedOperands(n) /\ y \in SignedOperands(n)
  /\ s = 0
  /\ IF x = Zero(num_words(x)) \/ y = Zero(num_words(y))
     THEN junk \in JunkWords
     ELSE junk = NoJunk
  /\ str = <<>>
  /\ base = 10
  /\ out = 0

\* slt(x, y)
SignedLess == pc = "start" /\ Done("slt", slt(x, y))

\* sdivrem(x, y)
SignedDivide == pc = "start" /\ Done("sdivrem", sdivrem(x, y, junk))

NextSigned == SignedLess \/ SignedDivide

SpecSigned == InitSigned /\ [][NextSigned]_vars

\* ------------------------------------------------ claims: signed operations
\* The two's-complement signed number a word array denotes.
SignedValue(v) ==
  IF Value(v) >= Modulus(num_words(v)) \div 2
  THEN Value(v) - Modulus(num_words(v))
  ELSE Value(v)

Abs(k) == IF k < 0 THEN 0 - k ELSE k

\* The least signed value, 2^(N-1) as a bit pattern.
SignedMin(n) == [i \in 0 .. n - 1 |-> IF i = n - 1 THEN B \div 2 ELSE 0]

\* Third operands for transitivity.
SignedThird(n) ==
  {Zero(n), FromWord(n, 1), AllOnes(n), SignedMin(n),
   operator_not(SignedMin(n))}

\* C16: slt(x, y) is true exactly when the signed value of x is less than
\* that of y; slt is irreflexive, transitive, and exactly one of slt(x, y),
\* slt(y, x), x == y holds.
C16_SignedOrder ==
  (pc = "done" /\ op = "slt") =>
    /\ out = (SignedValue(x) < SignedValue(y))
    /\ ~slt(x, x)
    /\ Cardinality({k \in 1 .. 3 : <<out, slt(y, x), operator_eq(x, y)>>[k]}) = 1
    /\ \A c \in SignedThird(num_words(x)) :
         /\ (out /\ slt(y, c)) => slt(x, c)
         /\ (slt(c, x) /\ out) => slt(c, y)

\* C16 happens: minus one is less than the greatest signed value, where the
\* unsigned order is the other way round.
C16_Witness ==
  /\ pc = "done"
  /\ op = "slt"
  /\ x = AllOnes(3)
  /\ y = operator_not(SignedMin(3))
  /\ out = TRUE

\* C15, as claimed: for v # 0, sdivrem(u, v) = (q, r) with
\* u == q * v + r (mod 2^N), |r| < |v|, r zero or of the sign of u, and q the
\* quotient truncated toward zero, negative exactly when the signs of u and v
\* differ and q # 0.
C15_SignedDivisionAsClaimed ==
  (pc = "done" /\ op = "sdivrem" /\ y # Zero(num_words(y))) =>
    LET u == SignedValue(x)
        v == SignedValue(y)
        m == Modulus(num_words(x))
    IN  /\ ~Aborted(out)
        /\ (RefMul(Value(out.quot), Value(y), m).r + Value(out.rem)) % m
             = Value(x)
        /\ Abs(SignedValue(out.rem)) < Abs(v)
        /\ SignedValue(out.rem) = 0 \/ (SignedValue(out.rem) < 0) = (u < 0)
        /\ Abs(SignedValue(out.quot)) = Abs(u) \div Abs(v)
        /\ (SignedValue(out.quot) < 0)
             = ((u < 0) # (v < 0) /\ SignedValue(out.quot) # 0)

\* C15, amended: the same, except that for u the least signed value and
\* v = -1, whose quotient 2^(N-1) is no signed N-bit value, q is u and r is 0.
C15_SignedDivision ==
  (pc = "done" /\ op = "sdivrem" /\ y # Zero(num_words(y))) =>
    LET u == SignedValue(x)
        v == SignedValue(y)
        m == Modulus(num_words(x))
    IN  /\ ~Aborted(out)
        /\ (RefMul(Value(out.quot), Value(y), m).r + Value(out.rem)) % m
             = Value(x)
        /\ Abs(SignedValue(out.rem)) < Abs(v)
        /\ SignedValue(out.rem) = 0 \/ (SignedValue(out.rem) < 0) = (u < 0)
        /\ Abs(SignedValue(out.quot)) = Abs(u) \div Abs(v)
        /\ IF x = SignedMin(num_words(x)) /\ y = AllOnes(num_words(y))
           THEN out.quot = x /\ out.rem = Zero(num_words(x))
           ELSE (SignedValue(out.quot) < 0)
                  = ((u < 0) # (v < 0) /\ SignedValue(out.quot) # 0)

\* C15 happens: -15 divided by 7 on three words is -2, remainder -1.
C15_Witness ==
  /\ pc = "done"
  /\ op = "sdivrem"
  /\ x = [i \in 0 .. 2 |-> IF i = 0 THEN 1 ELSE WordMax]
  /\ y = FromWord(3, B \div 2 - 1)
  /\ out = [quot |-> [i \in 0 .. 2 |-> IF i = 0 THEN WordMax - 1 ELSE WordMax],
            rem |-> AllOnes(3)]

\* ------------------------------------------------------------ conversions
\* A native integer: the bits of its type, whether the type is signed, and
\* its value.  The types are those of one word (uint64_t, int64_t) and of
\* half a word (uint32_t, int32_t).
Natives ==
  UNION {{[bits |-> b, signed |-> FALSE, value |-> k] : k \in 0 .. Pow2(b) - 1}
         \cup {[bits |-> b, signed |-> TRUE, value |-> k] :
                 k \in 0 - Pow2(b - 1) .. Pow2(b - 1) - 1} :
         b \in {HalfBits, WordBits}}

\* uint<128>::uint(T x) and uint<N>::uint(T... v) for one v:
\* words_{static_cast<uint64_t>(x)}, the remaining words zero.  The cast
\* converts the value modulo 2^64.
uint_from_native(n, nat) ==
  [i \in 0 .. n - 1 |-> IF i = 0 THEN nat.value % B ELSE 0]

\* uint<N>::uint(const uint<M>&), M < N: n is the number of words of uint<N>.
widen(n, v) == [i \in 0 .. n - 1 |-> IF i < num_words(v) THEN v[i] ELSE 0]

\* The source is x (a uint) or y (a native integer), the target has s words.
InitConvert ==
  /\ pc = "start"
  /\ op = "none"
  /\ \E n \in Widths : x \in Operands(n)
  /\ y \in Natives
  /\ s \in Widths
  /\ junk = 0
  /\ str = <<>>
  /\ base = 10
  /\ out = 0

\* uint<N>(y)
FromNative == pc = "start" /\ Done("from_native", uint_from_native(s, y))

\* uint<N>(x) for x a uint<M>, M < N
Widen ==
  /\ pc = "start"
  /\ num_words(x) < s
  /\ pc' = "widened"
  /\ op' = "widen"
  /\ out' = widen(s, x)
  /\ UNCHANGED <<x, y, s, junk, str, base>>

\* static_cast<uint<M>>(uint<N>(x))
NarrowBack ==
  /\ pc = "widened"
  /\ pc' = "done"
  /\ out' = narrow(out, num_words(x))
  /\ UNCHANGED <<op, x, y, s, junk, str, base>>

\* static_cast<uint<M>>(x) for x a uint<N>, M < N
Narrow ==
  /\ pc = "start"
  /\ s < num_words(x)
  /\ Done("narrow", narrow(x, s))

NextConvert == FromNative \/ Widen \/ NarrowBack \/ Narrow

SpecConvert == InitConvert /\ [][NextConvert]_vars

\* ------------------------------------------------- claims: conversions
\* C17: a uint<N> made from a native integer of any signedness and value
\* has the value of the source's unsigned bit pattern, all higher bits
\* zero; one made from a uint<M>, M < N, has the value of the source;
\* narrowing keeps the low M bits; narrowing what was widened gives x.
C17_ZeroExtension ==
  /\ (pc = "done" /\ op = "from_native") =>
       /\ num_words(out) = s
       /\ Value(out) = y.value % Pow2(y.bits)
  /\ (pc = "widened") => num_words(out) = s /\ Value(out) = Value(x)
  /\ (pc = "done" /\ op = "widen") => out = x
  /\ (pc = "done" /\ op = "narrow") =>
       /\ num_words(out) = s
       /\ Value(out) = Value(x) % Modulus(s)

\* ------------------------------------------------------ product of words
\* x and y are words.
InitWords ==
  /\ pc = "start"
  /\ op = "none"
  /\ x \in 0 .. WordMax
  /\ y \in 0 .. WordMax
  /\ s = 0
  /\ junk = 0
  /\ str = <<>>
  /\ base = 10
  /\ out = 0

\* umul(x, y) of two words, by the portable path.
UmulWord == pc = "start" /\ Done("umul_word", umul_word(x, y))

NextWords == UmulWord

SpecWords == InitWords /\ [][NextWords]_vars

\* The sums u1, u2 and hi of the portable path before uint64_t arithmetic
\* reduces them (not code: the products and the operands of each sum are the
\* words the code holds).
umul_word_sums(a, b) ==
  LET xl == bit_and(a, HalfMask)
      xh == shr(a, HalfBits)
      yl == bit_and(b, HalfMask)
      yh == shr(b, HalfBits)
      t0 == (xl * yl) % B
      u1 == ((xh * yl) % B) + shr(t0, HalfBits)
      u2 == ((xl * yh) % B) + bit_and(u1 % B, HalfMask)
      hi == ((xh * yh) % B) + shr(u2 % B, HalfBits) + shr(u1 % B, HalfBits)
  IN  [u1 |-> u1, u2 |-> u2, hi |-> hi]

\* C19: the portable path of umul(x, y) returns (lo, hi) with
\* hi * 2^64 + lo = x * y, the same words as the native 128-bit product, and
\* none of its sums u1, u2, hi exceeds a word.
C19_PortableUmulExact ==
  (pc = "done" /\ op = "umul_word") =>
    /\ out[1] * B + out[0] = x * y
    /\ out = umul_word_builtin(x, y)
    /\ umul_word_sums(x, y).u1 < B
    /\ umul_word_sums(x, y).u2 < B
    /\ umul_word_sums(x, y).hi < B

\* C19 happens: the greatest words, whose product has the greatest high word.
C19_Witness ==
  /\ pc = "done"
  /\ op = "umul_word"
  /\ x = WordMax
  /\ y = WordMax
  /\ out = uint128(1, WordMax - 1)

\* ------------------------------------------------- Knuth's loop, by steps
\* Words of the operands of the long division.
KnuthWords(n) ==
  IF n = 3 THEN {0, 1, B \div 2 - 1, B \div 2, B \div 2 + 1, WordMax}
  ELSE DivWords(n)

KnuthOperands(n) == [0 .. n - 1 -> KnuthWords(n)]

\* Numerators and divisors of at least three significant words.
InitKnuth ==
  /\ pc = "start"
  /\ op = "none"
  /\ \E n \in 3 .. MaxWords :
       /\ x \in KnuthOperands(n)
       /\ y \in KnuthOperands(n)
       /\ trim(y, n) >= 3
       /\ trim(x, n) >= trim(y, n)
  /\ s = 0
  /\ junk = NoJunk
  /\ str = <<>>
  /\ base = 10
  /\ out = 0

\* udivrem<M, N> up to the loop of udivrem_knuth: normalize, the branch to
\* udivrem_knuth, its divisor and the first j.  out holds the arrays q and u
\* and s holds j; qhat, before and overflow record what the last iteration
\* estimated, the array u it started from and the branch it took.
KnuthEnter ==
  /\ pc = "start"
  /\ LET entered(na) ==
           /\ ~Aborted(na)
           /\ na.num_numerator_words > na.num_divisor_words
           /\ na.num_divisor_words >= 3
           /\ out' = [q |-> Zero(num_words(x)), u |-> na.numerator, qhat |-> 0,
                      before |-> na.numerator, overflow |-> FALSE]
           /\ s' = na.num_numerator_words - na.num_divisor_words - 1
     IN  entered(normalize(x, y, junk))
  /\ pc' = "loop"
  /\ op' = "udivrem_knuth"
  /\ UNCHANGED <<x, y, junk, str, base>>

\* The body of the loop of udivrem_knuth for one j: the arrays q and u after
\* it, with the estimate, the array it started from and the branch taken.
knuth_iteration(st, xx, yy, jk, j) ==
  LET iterated(res, estimate, overflows) ==
        [q |-> res.q, u |-> res.u, qhat |-> estimate.quot,
         before |-> st.u, overflow |-> overflows]
      with(d, dlen, divisor, reciprocal) ==
        iterated(udivrem_knuth_step(st.q, st.u, d, dlen, divisor,
                                    reciprocal, j),
                 udivrem_3by2(st.u[j + dlen], st.u[j + dlen - 1],
                              st.u[j + dlen - 2], divisor, reciprocal),
                 operator_eq_128(uint128(st.u[j + dlen - 1],
                                         st.u[j + dlen]), divisor))
      divided(na, divisor) ==
        with(na.divisor, na.num_divisor_words, divisor,
             reciprocal_3by2(divisor))
      normalized(na) ==
        divided(na, uint128(na.divisor[na.num_divisor_words - 2],
                            na.divisor[na.num_divisor_words - 1]))
  IN  normalized(normalize(xx, yy, jk))

\* One iteration of the loop of udivrem_knuth, for j = s.
KnuthIterate ==
  /\ pc = "loop"
  /\ s >= 0
  /\ out' = knuth_iteration(out, x, y, junk, s)
  /\ s' = s - 1
  /\ UNCHANGED <<pc, op, x, y, junk, str, base>>

\* The loop ends and udivrem<M, N> returns the quotient and the remainder.
KnuthReturn ==
  /\ pc = "loop"
  /\ s < 0
  /\ LET returned(na) ==
           out' = [quot |-> out.q,
                   rem |-> knuth_remainder(out.u, num_words(x),
                                           na.num_divisor_words, na.shift)]
     IN  returned(normalize(x, y, junk))
  /\ pc' = "done"
  /\ UNCHANGED <<op, x, y, s, junk, str, base>>

NextKnuth == KnuthEnter \/ KnuthIterate \/ KnuthReturn

SpecKnuth == InitKnuth /\ [][NextKnuth]_vars

\* ------------------------------------------------- claims: Knuth's loop
\* The iteration that made the current state, and what it worked on: its j,
\* the divisor of dlen words and the dlen + 1 words of u it started from.
KnuthJ == s + 1

KnuthDlen == normalize(x, y, junk).num_divisor_words

KnuthDivisor == Value(normalize(x, y, junk).divisor)

KnuthWindow == Value(Slice(out.before, KnuthJ, KnuthDlen + 1))

\* Some iteration has run: j is below its first value ulen - dlen - 1.
KnuthIterated ==
  /\ pc = "loop"
  /\ s < normalize(x, y, junk).num_numerator_words - KnuthDlen - 1

\* C20: in the branch of udivrem_knuth that does not overflow, qhat of
\* udivrem_3by2 is the true digit or one more; after the iteration q[j] is
\* the true digit and u[j .. j + dlen - 1] holds the window's remainder,
\* below the divisor, whatever u[j + dlen] still holds.  The loop run by
\* steps returns what udivrem returns.
C20_KnuthDigit ==
  /\ (KnuthIterated /\ ~out.overflow) =>
       /\ KnuthWindow \div KnuthDivisor < B
       /\ out.qhat \in {KnuthWindow \div KnuthDivisor,
                        KnuthWindow \div KnuthDivisor + 1}
       /\ out.q[KnuthJ] = KnuthWindow \div KnuthDivisor
       /\ Value(Slice(out.u, KnuthJ, KnuthDlen)) = KnuthWindow % KnuthDivisor
       /\ Value(Slice(out.u, KnuthJ, KnuthDlen)) < KnuthDivisor
  /\ (pc = "done" /\ op = "udivrem_knuth") => out = udivrem(x, y, junk)

\* C20 happens: 0x100 by 0x101 on three words, scaled by three bits: the
\* estimate is 1, the subtraction borrows, the divisor is added back and the
\* digit stored is 0, the window holding the numerator again.
C20_Witness ==
  /\ KnuthIterated
  /\ ~out.overflow
  /\ x = [i \in 0 .. 2 |-> IF i = 2 THEN 1 ELSE 0]
  /\ y = [i \in 0 .. 2 |-> IF i = 1 THEN 0 ELSE 1]
  /\ out.qhat = 1
  /\ out.q[0] = 0
  /\ Slice(out.u, 0, 3) = [i \in 0 .. 2 |-> IF i = 2 THEN B \div 2 ELSE 0]

\* C21: when the top two words of the window equal the divisor's top two
\* words, the digit WordMax (2^64 - 1) is the true digit: the borrow of
\* submul is exactly u[j + dlen], so the subtraction leaves no borrow, and
\* the dlen + 1 words of the window hold the remainder, below the divisor.
C21_OverflowDigitExact ==
  (KnuthIterated /\ out.overflow) =>
    /\ out.q[KnuthJ] = WordMax
    /\ KnuthWindow \div KnuthDivisor = WordMax
    /\ submul(out.before, KnuthJ, normalize(x, y, junk).divisor, KnuthDlen,
              WordMax).borrow = out.before[KnuthJ + KnuthDlen]
    /\ out.u[KnuthJ + KnuthDlen] = 0
    /\ Value(Slice(out.u, KnuthJ, KnuthDlen + 1)) = KnuthWindow % KnuthDivisor
    /\ Value(Slice(out.u, KnuthJ, KnuthDlen)) < KnuthDivisor

\* C21 happens: 0x1000 by 0x0101 on four words, scaled by three bits.  The
\* first iteration stores the digit 0; the second finds the window 8, 0, 0, 0
\* against the divisor 8, 0, 8 and stores WordMax, leaving 0x788.
C21_Witness ==
  /\ KnuthIterated
  /\ out.overflow
  /\ x = uint256(0, 0, 0, 1)
  /\ y = uint256(1, 0, 1, 0)
  /\ s = 0 - 1
  /\ out.q[0] = WordMax
  /\ Slice(out.u, 0, 4) = uint256(B \div 2, B \div 2, B \div 2 - 1, 0)

\* ------------------------------------------ division by one and two words
\* y is a normalized divisor of s words, s one or two, and x a dividend of
\* s + 1 words whose top s words are below y.
InitWordDiv ==
  /\ pc = "start"
  /\ op = "none"
  /\ s \in {1, 2}
  /\ y \in [0 .. s - 1 -> 0 .. WordMax]
  /\ y[s - 1] >= B \div 2
  /\ x \in [0 .. s -> 0 .. WordMax]
  /\ Value([i \in 0 .. s - 1 |-> x[i + 1]]) < Value(y)
  /\ junk = 0
  /\ str = <<>>
  /\ base = 10
  /\ out = 0

\* udivrem_2by1(x, d, reciprocal_2by1(d))
Divide2by1 ==
  /\ pc = "start"
  /\ s = 1
  /\ Done("udivrem_2by1", udivrem_2by1(x, y[0], reciprocal_2by1(y[0])))

\* udivrem_3by2(u2, u1, u0, d, reciprocal_3by2(d))
Divide3by2 ==
  /\ pc = "start"
  /\ s = 2
  /\ Done("udivrem_3by2", udivrem_3by2(x[2], x[1], x[0], y, reciprocal_3by2(y)))

NextWordDiv == Divide2by1 \/ Divide3by2

SpecWordDiv == InitWordDiv /\ [][NextWordDiv]_vars

\* C22: for a normalized d, v = reciprocal_2by1(d) and u with u[1] < d,
\* udivrem_2by1(u, d, v) returns a one-word q and r with u = q * d + r and
\* r < d: the two conditional corrections are enough.
C22_Divide2by1Exact ==
  (pc = "done" /\ op = "udivrem_2by1") =>
    /\ out.quot \in 0 .. WordMax
    /\ out.rem \in 0 .. y[0] - 1
    /\ Value(x) = out.quot * y[0] + out.rem

\* C22 happens: 0x7F by 8 is 15, remainder 7, the largest quotient.
C22_Witness ==
  /\ pc = "done"
  /\ op = "udivrem_2by1"
  /\ x = uint128(WordMax, B \div 2 - 1)
  /\ y[0] = B \div 2
  /\ out = [quot |-> WordMax, rem |-> B \div 2 - 1]

\* C23: for a normalized two-word d, v = reciprocal_3by2(d) and (u2, u1, u0)
\* with (u2, u1) < d, udivrem_3by2 returns a one-word q and a two-word r
\* with (u2, u1, u0) = q * d + r and r < d.
C23_Divide3by2Exact ==
  (pc = "done" /\ op = "udivrem_3by2") =>
    /\ out.quot \in 0 .. WordMax
    /\ num_words(out.rem) = 2
    /\ Value(out.rem) < Value(y)
    /\ Value(x) = out.quot * Value(y) + Value(out.rem)

\* C23 happens: 0x80F by 0x81 is 15, remainder 0x80.
C23_Witness ==
  /\ pc = "done"
  /\ op = "udivrem_3by2"
  /\ x = [i \in 0 .. 2 |-> IF i = 0 THEN WordMax ELSE IF i = 1 THEN 0 ELSE B \div 2]
  /\ y = uint128(1, B \div 2)
  /\ out = [quot |-> WordMax, rem |-> uint128(0, B \div 2)]

\* --------------------------------------------- reciprocal_2by1 at 64 bits
\* reciprocal_2by1 is written for words of 64 bits: here a uint64_t is its
\* eight bytes, least significant first, a uint128 its sixteen, and the
\* arithmetic of the type is done on the bytes.
ByteBase == Pow2(8)

\* The carry into byte i when the terms f[0 .. i-1] are reduced to bytes.
RECURSIVE CarryInto(_, _)
CarryInto(f, i) ==
  IF i = 0 THEN 0 ELSE (f[i - 1] + CarryInto(f, i - 1)) \div ByteBase

\* The n bytes of the number whose terms are f[i] * 256^i: the value
\* modulo 2^(8n), as unsigned arithmetic of n bytes gives it.
Reduce(f, n) == [i \in 0 .. n - 1 |-> (f[i] + CarryInto(f, i)) % ByteBase]

\* The n bytes of a number below 2^31.
Bytes(v, n) ==
  [i \in 0 .. n - 1 |-> IF i < 4 THEN (v \div Pow2(8 * i)) % ByteBase ELSE 0]

\* a as n bytes: zero-extended or truncated.
Resize(a, n) == [i \in 0 .. n - 1 |-> IF i \in DOMAIN a THEN a[i] ELSE 0]

\* The number the low four bytes denote, when it is below 2^31.
Small(a) ==
  a[0] + ByteBase * (a[1] + ByteBase * (a[2] + ByteBase * a[3]))

u_add(a, b) == Reduce([i \in DOMAIN a |-> a[i] + b[i]], Cardinality(DOMAIN a))

\* a - b = a + ~b + 1
u_sub(a, b) ==
  Reduce([i \in DOMAIN a |-> a[i] + (ByteBase - 1 - b[i]) + Bool(i = 0)],
         Cardinality(DOMAIN a))

RECURSIVE Convolve(_, _, _, _)
Convolve(a, b, k, i) ==
  IF i > k THEN 0
  ELSE (IF i \in DOMAIN a /\ (k - i) \in DOMAIN b THEN a[i] * b[k - i] ELSE 0)
       + Convolve(a, b, k, i + 1)

\* The product of a and b in n bytes.
u_mul(a, b, n) == Reduce([k \in 0 .. n - 1 |-> Convolve(a, b, k, 0)], n)

BitOf(a, i) ==
  IF i >= 0 /\ (i \div 8) \in DOMAIN a
  THEN (a[i \div 8] \div Pow2(i % 8)) % 2 ELSE 0

RECURSIVE ByteFrom(_, _, _)
ByteFrom(a, pos, t) ==
  IF t = 8 THEN 0 ELSE BitOf(a, pos + t) * Pow2(t) + ByteFrom(a, pos, t + 1)

u_shr(a, k) == [j \in DOMAIN a |-> ByteFrom(a, 8 * j + k, 0)]

u_shl(a, k) == [j \in DOMAIN a |-> ByteFrom(a, 8 * j - k, 0)]

\* The high uint64_t of a uint128.
u_high(a) == [i \in 0 .. 7 |-> a[i + 8]]

\* internal::reciprocal_table_item(d9): uint16_t(0x7fd00 / (0x100 | d9)),
\* d9 a uint8_t.
reciprocal_table_item(d9) == (523520 \div (256 + (d9 % 256))) % 65536

\* reciprocal_2by1 with v3 returned, the last refinement left out.
reciprocal_2by1_u64_v3(d) ==
  LET d0 == [i \in 0 .. 7 |-> IF i = 0 THEN d[0] % 2 ELSE 0]
      third(v2, e) ==
        [value |-> u_add(u_shr(u_high(u_mul(v2, e, 16)), 1), u_shl(v2, 31))]
      error(v2, d63) ==
        third(v2, u_sub(IF d0[0] = 1 THEN u_shr(v2, 1) ELSE Bytes(0, 8),
                        u_mul(v2, d63, 8)))
      second(v2) == error(v2, u_add(u_shr(d, 1), d0))
      first(v1, d40) ==
        second(u_add(u_shl(v1, 13),
                     u_shr(u_mul(v1, u_sub(u_shl(Bytes(1, 8), 60),
                                           u_mul(v1, d40, 8)), 8), 47)))
      seed(v0, d40) ==
        first(Resize(u_sub(u_sub(Bytes(v0 * 2048, 4),
                                 Resize(u_shr(u_mul(Bytes(v0 * v0, 8), d40, 8),
                                              40), 4)),
                           Bytes(1, 4)), 8),
              d40)
  IN  IF d[7] < 128 THEN Abort("INTX_REQUIRE(d & 0x8000000000000000)")
      ELSE seed(reciprocal_table_item(Small(u_shr(d, 55)) - 256),
                u_add(u_shr(d, 24), Bytes(1, 8)))

\* reciprocal_2by1(uint64_t d), as the source computes it: the outcome is the
\* assertion failure or the value returned.
reciprocal_2by1_u64(d) ==
  LET d0 == [i \in 0 .. 7 |-> IF i = 0 THEN d[0] % 2 ELSE 0]
      \* v4 = v3 - (umul(v3, d) + d)[1] - d
      last(v3) ==
        [value |->
           u_sub(u_sub(v3, u_high(u_add(u_mul(v3, d, 16), Resize(d, 16)))), d)]
      \* v3 = (umul(v2, e)[1] >> 1) + (v2 << 31)
      third(v2, e) ==
        last(u_add(u_shr(u_high(u_mul(v2, e, 16)), 1), u_shl(v2, 31)))
      \* e = ((v2 >> 1) & (0 - d0)) - v2 * d63
      error(v2, d63) ==
        third(v2, u_sub(IF d0[0] = 1 THEN u_shr(v2, 1) ELSE Bytes(0, 8),
                        u_mul(v2, d63, 8)))
      \* d63 = (d >> 1) + d0
      second(v2) == error(v2, u_add(u_shr(d, 1), d0))
      \* v2 = (v1 << 13) + (v1 * (0x1000000000000000 - v1 * d40) >> 47)
      first(v1, d40) ==
        second(u_add(u_shl(v1, 13),
                     u_shr(u_mul(v1, u_sub(u_shl(Bytes(1, 8), 60),
                                           u_mul(v1, d40, 8)), 8), 47)))
      \* v1 = (v0 << 11) - uint32_t(v0 * v0 * d40 >> 40) - 1, in uint32_t
      seed(v0, d40) ==
        first(Resize(u_sub(u_sub(Bytes(v0 * 2048, 4),
                                 Resize(u_shr(u_mul(Bytes(v0 * v0, 8), d40, 8),
                                              40), 4)),
                           Bytes(1, 4)), 8),
              d40)
  IN  IF d[7] < 128 THEN Abort("INTX_REQUIRE(d & 0x8000000000000000)")
      \* d9 = d >> 55; v0 = reciprocal_table[d9 - 256]; d40 = (d >> 24) + 1
      ELSE seed(reciprocal_table_item(Small(u_shr(d, 55)) - 256),
                u_add(u_shr(d, 24), Bytes(1, 8)))

\* The divisors given to reciprocal_2by1: the top bit set, the top two
\* bytes around the steps of the table index, the bytes that reach d40 and
\* the low bytes all clear or all set, both parities; and bytes of mixed
\* patterns.
ReciprocalDivisors ==
  {[i \in 0 .. 7 |->
      IF i = 7 THEN top
      ELSE IF i = 6 THEN next
      ELSE IF i >= 3 THEN mid
      ELSE IF i >= 1 THEN low
      ELSE last] :
     top \in {128, 129, 156, 192, 254, 255}, next \in {0, 127, 128, 255},
     mid \in {0, 255}, low \in {0, 255}, last \in {0, 1, 254, 255}}
  \cup {[i \in 0 .. 7 |->
           IF i = 7 THEN 128 + ((k * 5) % 128)
           ELSE (k * k * (i + 3) + 97 * (i + 1) * k + 31 * i) % 256] :
          k \in 0 .. 255}

\* x is the divisor d.
InitReciprocal ==
  /\ pc = "start"
  /\ op = "none"
  /\ x \in ReciprocalDivisors
  /\ y = 0
  /\ s = 0
  /\ junk = 0
  /\ str = <<>>
  /\ base = 10
  /\ out = 0

\* reciprocal_2by1(x)
Reciprocal == pc = "start" /\ Done("reciprocal_2by1", reciprocal_2by1_u64(x))

NextReciprocal == Reciprocal

SpecReciprocal == InitReciprocal /\ [][NextReciprocal]_vars

\* (2^64 + v) * d, in 18 bytes.
ReciprocalProduct(v, d) ==
  u_mul([i \in 0 .. 8 |-> IF i = 8 THEN 1 ELSE v[i]], d, 18)

\* Whether the number of 18 bytes is below 2^128.
Below2To128(a) == a[16] = 0 /\ a[17] = 0

\* C24: for d with its top bit set, reciprocal_2by1(d) is a uint64_t v with
\* 2^64 + v = floor((2^128 - 1) / d), that is
\* (2^64 + v) * d <= 2^128 - 1 < (2^64 + v + 1) * d, and the table index
\* (d >> 55) - 256 is within 0 .. 255.
C24_ReciprocalExact ==
  (pc = "done" /\ op = "reciprocal_2by1") =>
    /\ ~Aborted(out)
    /\ out.value \in [0 .. 7 -> 0 .. ByteBase - 1]
    /\ Below2To128(ReciprocalProduct(out.value, x))
    /\ ~Below2To128(u_add(ReciprocalProduct(out.value, x), Resize(x, 18)))
    /\ Small(u_shr(x, 55)) - 256 \in 0 .. 255

\* C24 happens: d = 2^63, whose reciprocal is 2^64 - 1.
C24_Witness ==
  /\ pc = "done"
  /\ op = "reciprocal_2by1"
  /\ x = [i \in 0 .. 7 |-> IF i = 7 THEN 128 ELSE 0]
  /\ out = [value |-> [i \in 0 .. 7 |-> 255]]

\* ------------------------------------------------------- loops, by steps
\* Words of the operands whose loops are run one iteration at a time.
LoopWords(n) ==
  IF n <= 3 THEN {0, 1, B \div 2, WordMax}
  ELSE IF n = 4 THEN {0, B \div 2, WordMax}
  ELSE {0, WordMax}

LoopOperands(n) == [0 .. n - 1 -> LoopWords(n)]

\* The bases whose digits fit the scaled word.
LoopBases == {2, 3, 10, 16}

\* Before the call: no operands yet.
InitLoops ==
  /\ pc = "idle"
  /\ op = "none"
  /\ s = 0
  /\ out = 0
  /\ str = <<>>
  /\ x = Zero(2)
  /\ y = Zero(2)
  /\ base = 10
  /\ junk = NoJunk

\* A call udivrem(x, y) with y non-zero, or a call to_string(x, base); y
\* then keeps the argument while the loop works on x.
LoopCall ==
  /\ pc = "idle"
  /\ \E n \in Widths :
       /\ x' \in LoopOperands(n)
       /\ \/ /\ pc' = "start"
             /\ y' \in LoopOperands(n) \ {Zero(n)}
             /\ base' = base
             /\ IF x' = Zero(n) THEN junk' \in JunkWords ELSE junk' = NoJunk
          \/ /\ pc' = "format"
             /\ y' = x'
             /\ base' \in LoopBases
             /\ junk' = NoJunk
  /\ UNCHANGED <<op, s, str, out>>

\* udivrem(x, y) up to the loop of udivrem_by1 or udivrem_by2, or to its
\* return where there is no loop (the uint128 overload, the short
\* numerator).  out holds the array u, the remainder rem and the count of
\* iterations made; s holds the position of the pointer it.
DivideEnter ==
  /\ pc = "start"
  /\ LET by(name, u, len, k, rem) ==
           /\ pc' = name
           /\ s' = len - 1 - k
           /\ out' = [u |-> [i \in DOMAIN u |->
                             IF i >= len - k /\ i < len THEN 0 ELSE u[i]],
                      rem |-> rem, iterations |-> 0]
         entered(na) ==
           IF num_words(x) = 2 \/ Aborted(na)
              \/ na.num_numerator_words <= na.num_divisor_words
           THEN pc' = "done" /\ s' = s /\ out' = udivrem(x, y, junk)
           ELSE IF na.num_divisor_words = 1
           THEN by("by1", na.numerator, na.num_numerator_words, 1,
                   na.numerator[na.num_numerator_words - 1])
           ELSE /\ na.num_divisor_words = 2
                /\ by("by2", na.numerator, na.num_numerator_words, 2,
                      uint128(na.numerator[na.num_numerator_words - 2],
                              na.numerator[na.num_numerator_words - 1]))
     IN  entered(normalize(x, y, junk))
  /\ op' = "udivrem"
  /\ UNCHANGED <<x, y, junk, str, base>>

\* One iteration of the do-while loop of udivrem_by1:
\* std::tie(*it, rem) = udivrem_2by1({*it, rem}, d, reciprocal), then the
\* test it-- != &u[0].
By1Iterate ==
  /\ pc = "by1"
  /\ LET stored(res) ==
           out' = [u |-> [out.u EXCEPT ![s] = res.quot], rem |-> res.rem,
                   iterations |-> out.iterations + 1]
         divided(d) ==
           stored(udivrem_2by1(uint128(out.u[s], out.rem), d, reciprocal_2by1(d)))
     IN  divided(normalize(x, y, junk).divisor[0])
  /\ pc' = IF s # 0 THEN "by1" ELSE "by1_end"
  /\ s' = s - 1
  /\ UNCHANGED <<op, x, y, junk, str, base>>

\* One iteration of the do-while loop of udivrem_by2.
By2Iterate ==
  /\ pc = "by2"
  /\ LET stored(res) ==
           out' = [u |-> [out.u EXCEPT ![s] = res.quot], rem |-> res.rem,
                   iterations |-> out.iterations + 1]
         divided(d) ==
           stored(udivrem_3by2(out.rem[1], out.rem[0], out.u[s], d,
                               reciprocal_3by2(d)))
     IN  divided(narrow(normalize(x, y, junk).divisor, 2))
  /\ pc' = IF s # 0 THEN "by2" ELSE "by2_end"
  /\ s' = s - 1
  /\ UNCHANGED <<op, x, y, junk, str, base>>

\* udivrem<M, N> after udivrem_by1 or udivrem_by2: the quotient is the
\* array, the remainder is shifted back.
DivideReturn ==
  /\ pc \in {"by1_end", "by2_end"}
  /\ LET shift == normalize(x, y, junk).shift
         nw == num_words(x)
     IN  out' = [quot |-> narrow(out.u, nw),
                 rem |-> IF pc = "by1_end"
                         THEN FromWord(nw, shr(out.rem, shift))
                         ELSE widen(nw, operator_shr_128(out.rem, shift)),
                 iterations |-> out.iterations]
  /\ pc' = "done"
  /\ UNCHANGED <<op, x, y, s, junk, str, base>>

\* An iteration of the loop of to_string that pushes the digit and leaves x
\* undivided.
ToStringIterate_x_kept ==
  /\ pc = "format"
  /\ ~operator_eq(x, Zero(num_words(x)))
  /\ LET pushed(res) ==
           str' = Append(str, IF res.rem[0] < 10
                              THEN chr(ord["0"] + res.rem[0])
                              ELSE chr(ord["a"] + res.rem[0] - 10))
     IN  pushed(udivrem(x, FromInt(num_words(x), base), junk))
  /\ UNCHANGED <<pc, op, x, y, s, junk, base, out>>

\* One iteration of the loop of to_string, while (x != 0).
ToStringIterate ==
  /\ pc = "format"
  /\ ~operator_eq(x, Zero(num_words(x)))
  /\ LET pushed(res) ==
           /\ str' = Append(str, IF res.rem[0] < 10
                                 THEN chr(ord["0"] + res.rem[0])
                                 ELSE chr(ord["a"] + res.rem[0] - 10))
           /\ x' = res.quot
     IN  pushed(udivrem(x, FromInt(num_words(x), base), junk))
  /\ UNCHANGED <<pc, op, y, s, junk, base, out>>

\* to_string leaves its loop, or returns "0" for zero.
ToStringReturn ==
  /\ pc = "format"
  /\ operator_eq(x, Zero(num_words(x)))
  /\ pc' = "done"
  /\ op' = "to_string"
  /\ out' = [value |-> IF str = <<>> THEN <<"0">> ELSE reverse(str)]
  /\ UNCHANGED <<x, y, s, junk, str, base>>

NextLoops ==
  \/ LoopCall
  \/ DivideEnter \/ By1Iterate \/ By2Iterate \/ DivideReturn
  \/ KnuthEnter \/ KnuthIterate \/ KnuthReturn
  \/ ToStringIterate \/ ToStringReturn

\* Where a call can be, and the digits to_string can push.
LoopPositions ==
  {"idle", "start", "by1", "by1_end", "by2", "by2_end", "loop", "format",
   "done"}

LoopDigits ==
  {chr(ord["0"] + d) : d \in 0 .. 9} \cup {chr(ord["a"] + d) : d \in 0 .. 5}

\* The program moves on: before its return a call goes to another position,
\* moves its pointer or index, or pushes a digit.  Every step of NextLoops
\* is such a move, and one can be taken wherever pc is not "done".
LoopAdvance ==
  /\ pc # "done"
  /\ pc' \in LoopPositions
  /\ s' \in 0 - 1 .. MaxWords
  /\ str' \in {str} \cup {Append(str, c) : c \in LoopDigits}

\* Every call runs on: the program does not stop before it returns.
SpecLoops == InitLoops /\ [][NextLoops]_vars /\ WF_<<pc, s, str>>(LoopAdvance)

\* ----------------------------------------------------------- claims: loops
\* The words that udivrem hands to the routine it chooses: ulen and dlen.
LoopUlen == normalize(x, y, junk).num_numerator_words

LoopDlen == normalize(x, y, junk).num_divisor_words

\* The counts of iterations and what the loops return.
LoopCounts ==
  /\ (pc = "by1_end") => out.iterations = LoopUlen - 1 /\ s = 0 - 1
  /\ (pc = "by2_end") => out.iterations = LoopUlen - 2 /\ s = 0 - 1
  /\ (pc \in {"by1", "by2"}) => s >= 0
  /\ (pc = "loop") => s \in 0 - 1 .. LoopUlen - LoopDlen - 1
  /\ (pc = "done" /\ op = "udivrem_knuth") =>
       s = 0 - 1 /\ out = udivrem(x, y, junk)
  /\ (pc = "done" /\ op = "udivrem") =>
       [quot |-> out.quot, rem |-> out.rem] = udivrem(x, y, junk)
  /\ (pc = "format") => Len(str) + BitLength(Value(x)) <= num_bits(y)
  /\ (pc = "done" /\ op = "to_string") =>
       /\ Len(out.value) <= num_bits(y)
       /\ out = to_string(y, base, junk)

\* Each iteration moves its loop on by one: the pointer it and the index j
\* go down by one, and the x of to_string gets smaller.
LoopSteps ==
  /\ (By1Iterate \/ By2Iterate \/ KnuthIterate) => s' = s - 1
  /\ ToStringIterate => Value(x') < Value(x)

\* C26: every call of udivrem with a non-zero divisor and of to_string with
\* a base in 2 .. 36 comes to its end; udivrem_by1 makes len - 1 iterations,
\* udivrem_by2 len - 2, udivrem_knuth ulen - dlen (j goes from
\* ulen - dlen - 1 down by one to -1), and to_string at most N, x getting
\* smaller in each.
C26_LoopsTerminate == []LoopCounts /\ [][LoopSteps]_vars /\ <>(pc = "done")

\* C26 happens: udivrem_by1 has made its three iterations on the four words
\* of a normalized three-word numerator.
C26_Witness ==
  /\ pc = "by1_end"
  /\ x = AllOnes(3)
  /\ y = FromWord(3, 1)
  /\ LoopUlen = 4
  /\ out.iterations = 3

\* ------------------------------------------------------------ math::Number
\* uint64_t of the text programs, scaled: the digits and the factors are
\* taken modulo 2^Uint64Bits.
Uint64Bits == 14

Uint64 == Pow2(Uint64Bits)

Uint64Max == Uint64 - 1

\* Number::Split(i): digits_[i] %= base_, returns digits_[i] / base_.
\* The digit digits_[i] of the source is digits_[i + 1] here.
Split(digits_, base_, i) ==
  [digits_ |-> [digits_ EXCEPT ![i + 1] = @ % base_],
   remainder |-> digits_[i + 1] \div base_]

\* The first loop of Number::Normalize from index i on; its bound
\* digits_.size() grows with every push_back.
RECURSIVE Normalize_carry(_, _, _)
Normalize_carry(digits_, base_, i) ==
  LET carried(sp) ==
        IF sp.remainder = 0 THEN Normalize_carry(sp.digits_, base_, i + 1)
        ELSE IF i + 1 = Len(sp.digits_)
        THEN Normalize_carry(Append(sp.digits_, sp.remainder), base_, i + 1)
        ELSE Normalize_carry([sp.digits_ EXCEPT
                                ![i + 2] = (@ + sp.remainder) % Uint64],
                             base_, i + 1)
  IN  IF i < Len(digits_) THEN carried(Split(digits_, base_, i)) ELSE digits_

\* The second loop of Number::Normalize:
\* while (digits_.size() > 1 && digits_.back() == 0) digits_.pop_back();
RECURSIVE Normalize_pop(_)
Normalize_pop(digits_) ==
  IF Len(digits_) > 1 /\ digits_[Len(digits_)] = 0
  THEN Normalize_pop(SubSeq(digits_, 1, Len(digits_) - 1))
  ELSE digits_

\* Number::Normalize()
Normalize(digits_, base_) == Normalize_pop(Normalize_carry(digits_, base_, 0))

\* Number::operator+=(num) on a Number that has a digit.
Number_add(digits_, base_, num) ==
  Normalize([digits_ EXCEPT ![1] = (@ + num) % Uint64], base_)

\* The loop of Number::operator*=(num) from index i on, with the remainder
\* of the digit before; then push_back(remainder).
RECURSIVE Number_mul_loop(_, _, _, _, _)
Number_mul_loop(digits_, base_, num, remainder, i) ==
  LET split(sp) == Number_mul_loop(sp.digits_, base_, num, sp.remainder, i + 1)
  IN  IF i < Len(digits_)
      THEN split(Split([digits_ EXCEPT
                          ![i + 1] = (((@ * num) % Uint64) + remainder) % Uint64],
                       base_, i))
      ELSE Append(digits_, remainder)

\* Number::operator*=(num)
Number_mul(digits_, base_, num) ==
  Normalize(Number_mul_loop(digits_, base_, num, 0, 0), base_)

\* The bases, digits and arguments drawn; MaxCalls bounds a sequence of
\* calls and MaxDigits the digit vector a Number is made of.
MaxCalls == 3

MaxDigits == 2

NumberBases == {2, 3, 10, 64}

NumberDigits == {0, 1, 2, 64, Uint64Max}

NumberArgs == {0, 1, 3, Uint64Max}

\* Number(base, digits): any digit vector, the empty one and digits not
\* below the base included.  x holds digits_, least significant first.
InitNumber ==
  /\ pc = "number"
  /\ op = "Number"
  /\ base \in NumberBases
  /\ x \in UNION {[1 .. k -> NumberDigits] : k \in 0 .. MaxDigits}
  /\ y = 0
  /\ s = 0
  /\ junk = NoJunk
  /\ str = <<>>
  /\ out = 0

\* number += num.  On a Number without digits digits_[0] is outside the
\* vector (undefined behaviour): the write ends the program, or lands in
\* memory the vector does not count and leaves it empty.
AddAssign ==
  /\ pc = "number"
  /\ s < MaxCalls
  /\ \E num \in NumberArgs :
       /\ y' = num
       /\ IF Len(x) = 0
          THEN \/ pc' = "crashed" /\ x' = x
               \/ pc' = pc /\ x' = Normalize(x, base)
          ELSE pc' = pc /\ x' = Number_add(x, base, num)
  /\ op' = "+="
  /\ s' = s + 1
  /\ UNCHANGED <<junk, str, base, out>>

\* number *= num
MulAssign ==
  /\ pc = "number"
  /\ s < MaxCalls
  /\ \E num \in NumberArgs :
       /\ y' = num
       /\ x' = Number_mul(x, base, num)
  /\ op' = "*="
  /\ s' = s + 1
  /\ UNCHANGED <<pc, junk, str, base, out>>

NextNumber == AddAssign \/ MulAssign

SpecNumber == InitNumber /\ [][NextNumber]_vars

\* ---------------------------------------------------------- claims: Number
\* Every stored digit is below the base and the most significant one is not
\* zero, unless it is the only one.
NumberNormalized(digits_, base_) ==
  /\ Len(digits_) >= 1
  /\ \A i \in 1 .. Len(digits_) : digits_[i] < base_
  /\ Len(digits_) = 1 \/ digits_[Len(digits_)] # 0

\* C28: after any sequence of operator+= and operator*= calls on a Number
\* with base >= 2 made of any digit vector, every stored digit is below the
\* base and the most significant stored digit is not zero unless it is the
\* only digit.
C28_DigitsNormalized ==
  /\ pc # "crashed"
  /\ (pc = "number" /\ s > 0) => NumberNormalized(x, base)

\* ------------------------------------------------------ text and numbers
\* math::Rebase(num, new_base), its loop from digit i down: new_number
\* starts as Number(new_base, {0}) and takes the digits of num from the most
\* significant one, new_number *= num.Base(); new_number += num.GetDigit(i - 1).
RECURSIVE Rebase_loop(_, _, _, _, _)
Rebase_loop(new_number, new_base, digits_, base_, i) ==
  IF i > 0
  THEN Rebase_loop(Number_add(Number_mul(new_number, new_base, base_),
                              new_base, digits_[i]),
                   new_base, digits_, base_, i - 1)
  ELSE new_number

Rebase(digits_, base_, new_base) ==
  Rebase_loop(<<0>>, new_base, digits_, base_, Len(digits_))

\* encoding::EncodeChar(c), c the code of the character.
EncodeChar(c) ==
  IF c >= 48 /\ c <= 57 THEN c - 48
  ELSE IF c >= 65 /\ c <= 90 THEN c - 55
  ELSE IF c >= 97 /\ c <= 122 THEN c - 61
  ELSE IF c = 32 THEN 62
  ELSE IF c = 46 THEN 63
  ELSE 64

\* encoding::DecodeChar(num): the code of the character, 0 for '\0'.
DecodeChar(num) ==
  IF 0 <= num /\ num <= 9 THEN 48 + num
  ELSE IF 10 <= num /\ num <= 35 THEN 65 + num - 10
  ELSE IF 36 <= num /\ num <= 61 THEN 97 + num - 36
  ELSE IF num = 62 THEN 32
  ELSE IF num = 63 THEN 46
  ELSE 0

\* encoding::EncodeString(s): the digits of Number(64, ...), the first
\* character first.
EncodeString(text) == [i \in 1 .. Len(text) |-> EncodeChar(text[i])]

\* encoding::DecodeString(number)
DecodeString(digits_) == [i \in 1 .. Len(digits_) |-> DecodeChar(digits_[i])]

\* The 64 characters of the alphabet, by their codes: digits, upper case,
\* lower case, space and '.'.
Alphabet == (48 .. 57) \cup (65 .. 90) \cup (97 .. 122) \cup {32, 46}

\* The texts drawn: all of at most MaxText characters, and those of one
\* character more over '0', 'A' and '.'.
MaxText == 2

CodeTexts ==
  UNION {[1 .. k -> Alphabet] : k \in 0 .. MaxText}
  \cup [1 .. MaxText + 1 -> {48, 65, 46}]

\* The moduli drawn, all with 64 * (p + 1) <= 2^Uint64Bits, so that no
\* product of a digit and a base wraps.
Moduli == {2, 3, 10, 64, 97, 251}

\* The text read by the sender and the modulus p, in y.
InitCode ==
  /\ pc = "text"
  /\ op = "none"
  /\ str \in CodeTexts
  /\ y \in Moduli
  /\ x = <<>>
  /\ base = 64
  /\ s = 0
  /\ junk = NoJunk
  /\ out = <<>>

\* math::Number msg = encoding::EncodeString(text);
Encode ==
  /\ pc = "text"
  /\ pc' = "encoded"
  /\ op' = "EncodeString"
  /\ x' = EncodeString(str)
  /\ base' = 64
  /\ UNCHANGED <<y, s, junk, str, out>>

\* msg = math::Rebase(msg, p);
RebaseToModulus ==
  /\ pc = "encoded"
  /\ pc' = "rebased"
  /\ op' = "Rebase"
  /\ x' = Rebase(x, base, y)
  /\ base' = y
  /\ UNCHANGED <<y, s, junk, str, out>>

\* The receiver: math::Number message(p, decrypted_elements);
\* message = math::Rebase(message, 64);
RebaseToText ==
  /\ pc = "rebased"
  /\ pc' = "restored"
  /\ op' = "Rebase"
  /\ x' = Rebase(x, base, 64)
  /\ base' = 64
  /\ UNCHANGED <<y, s, junk, str, out>>

\* std::string text = encoding::DecodeString(message);
Decode ==
  /\ pc = "restored"
  /\ pc' = "decoded"
  /\ op' = "DecodeString"
  /\ out' = DecodeString(x)
  /\ UNCHANGED <<x, y, s, junk, str, base>>

NextCode == Encode \/ RebaseToModulus \/ RebaseToText \/ Decode

SpecCode == InitCode /\ [][NextCode]_vars

\* ------------------------------------------------- claims: text and numbers
\* sum(digit[i] * base^i), the number that the digits stand for.
RECURSIVE NumberValue(_, _)
NumberValue(digits_, base_) ==
  IF Len(digits_) = 0 THEN 0
  ELSE digits_[1] + base_ * NumberValue(Tail(digits_), base_)

\* C29: for every text over the alphabet and every modulus p >= 2 with which
\* no product wraps, DecodeString(Rebase(Rebase(EncodeString(s), p), 64)) is
\* s again, and Rebase keeps the number the digits stand for.
C29_TextRoundTrip ==
  (64 * (y + 1) <= Uint64) =>
    /\ (pc \in {"rebased", "restored"}) =>
         NumberValue(x, base) = NumberValue(EncodeString(str), 64)
    /\ (pc = "decoded") => out = str

\* ------------------------------------------------------------------ ElGamal
\* An even branch of BinPow that returns half, not its square.
RECURSIVE BinPow_half_unsquared(_, _, _)
BinPow_half_unsquared(xx, yy, mod) ==
  IF yy = 0 THEN 1
  ELSE IF yy % 2 = 0
  THEN BinPow_half_unsquared(xx, yy \div 2, mod) % mod
  ELSE ((xx * BinPow_half_unsquared(xx, yy - 1, mod)) % Uint64) % mod

\* math::BinPow(x, y, mod); the products are uint64_t products.
RECURSIVE BinPow(_, _, _)
BinPow(xx, yy, mod) ==
  LET squared(half) == ((half * half) % Uint64) % mod
  IN  IF yy = 0 THEN 1
      ELSE IF yy % 2 = 0 THEN squared(BinPow(xx, yy \div 2, mod))
      ELSE ((xx * BinPow(xx, yy - 1, mod)) % Uint64) % mod

\* math::Mul(a, b, mod)
math_Mul(a, b, mod) == ((a * b) % Uint64) % mod

\* crypto::Encrypt(message, p, g, public_key, gen); gen is the number that
\* the call gen() returns.
Encrypt(message, p, g, public_key, gen) ==
  LET b == (1 + (gen % (p - 1))) % Uint64
      g_b == BinPow(g, b, p)
      g_ab == BinPow(public_key, b, p)
      encrypted == math_Mul(message, g_ab, p)
  IN  [first |-> g_b, second |-> encrypted]

\* crypto::Decrypt(encrypted_message, p, private_key)
Decrypt(encrypted_message, p, private_key) ==
  LET g_b == encrypted_message.first
      actual_encrypted_message == encrypted_message.second
      g_ab == BinPow(g_b, private_key, p)
      g_ab_inv == BinPow(g_ab, (p - 2) % Uint64, p)
  IN  math_Mul(actual_encrypted_message, g_ab_inv, p)

\* x^y mod p over the integers (not code): x^0 = 1, x^1 = x and
\* x^(i + j) = x^i * x^j, the exponent split in two parts.
RECURSIVE PowMod(_, _, _)
PowMod(xx, yy, p) ==
  IF yy = 0 THEN 1 % p
  ELSE IF yy = 1 THEN xx % p
  ELSE (PowMod(xx, yy \div 2, p) * PowMod(xx, yy - (yy \div 2), p)) % p

\* The primes drawn: below 2^(Uint64Bits / 2), as the primes of the program
\* are below 2^32; the small ones with all their residues, the largest one
\* with the residues at its ends and in its middle.
CryptoPrimes == {2, 3, 5, 7, 11, 13, 127}

Residues(p) ==
  IF p <= 13 THEN 0 .. p - 1
  ELSE {0, 1, 2, p \div 2, p - 2, p - 1}

\* The keys, the message digit and the number drawn by gen(): y holds p and
\* x the generator g, the private key (also one not below p - 1), the
\* public key g^a mod p, the digit and the random number.
InitCrypto ==
  /\ pc = "message"
  /\ op = "none"
  /\ y \in CryptoPrimes
  /\ \E g \in Residues(y) \ {0}, a \in Residues(y) \cup {y, y + 1},
        m \in Residues(y), r \in Residues(y) \cup {Pow2(Uint64Bits \div 2) - 1} :
       x = [g |-> g, private_key |-> a, public_key |-> PowMod(g, a, y),
            message |-> m, gen |-> r]
  /\ s = 0
  /\ junk = NoJunk
  /\ str = <<>>
  /\ base = 10
  /\ out = 0

\* The sender: Encrypt(message, p, g, public_key, gen)
EncryptDigit ==
  /\ pc = "message"
  /\ pc' = "encrypted"
  /\ op' = "Encrypt"
  /\ out' = Encrypt(x.message, y, x.g, x.public_key, x.gen)
  /\ UNCHANGED <<x, y, s, junk, str, base>>

\* The receiver: Decrypt(item, p, private_key); s holds the digit returned.
DecryptDigit ==
  /\ pc = "encrypted"
  /\ pc' = "decrypted"
  /\ op' = "Decrypt"
  /\ s' = Decrypt(out, y, x.private_key)
  /\ UNCHANGED <<x, y, junk, str, base, out>>

NextCrypto == EncryptDigit \/ DecryptDigit

SpecCrypto == InitCrypto /\ [][NextCrypto]_vars

\* ----------------------------------------------------------- claims: ElGamal
\* The exponent b that Encrypt draws.
RandomExponent == 1 + (x.gen % (y - 1))

\* C30: for a prime p below 2^32 (scaled: below 2^(Uint64Bits / 2)), g with
\* 0 < g < p, a private key a, the public key g^a mod p, b in 1 .. p - 1 and
\* a digit m below p, every call BinPow(x, y, p) that Encrypt and Decrypt
\* make returns x^y mod p, and Decrypt(Encrypt(m, p, g, public_key), p, a)
\* is m.
C30_DecryptInvertsEncrypt ==
  /\ (pc \in {"encrypted", "decrypted"}) =>
       /\ RandomExponent \in 1 .. y - 1
       /\ out.first = PowMod(x.g, RandomExponent, y)
       /\ BinPow(x.public_key, RandomExponent, y)
            = PowMod(x.public_key, RandomExponent, y)
       /\ BinPow(out.first, x.private_key, y)
            = PowMod(out.first, x.private_key, y)
       /\ BinPow(PowMod(out.first, x.private_key, y), y - 2, y)
            = PowMod(PowMod(out.first, x.private_key, y), y - 2, y)
  /\ (pc = "decrypted") => s = x.message

\* C30 happens: with p = 127, g = 2, the private key 125 (public key 64) and
\* b = 3 the digit 126 is sent as (8, 111) and comes back.
C30_Witness ==
  /\ pc = "decrypted"
  /\ y = 127
  /\ x.g = 2
  /\ x.private_key = 125
  /\ x.public_key = 64
  /\ x.message = 126
  /\ RandomExponent = 3
  /\ out = [first |-> 8, second |-> 111]
  /\ s = 126

=============================================================================
